---- MODULE Spec2Model ----
(***************************************************************************)
(* State-machine model of the messaging store (src/db.py) and of the       *)
(* request handlers that drive it (src/app.py).                            *)
(*                                                                         *)
(* Every request runs in its own process p \in Procs.  A process holds a   *)
(* call stack of frames; the top frame is the function that is executing.  *)
(* One step of a process is one SQL statement (with its commit) or one     *)
(* call to the campaign service, so that two requests interleave exactly   *)
(* at the places where two connections to the SQLite file can interleave.  *)
(***************************************************************************)
EXTENDS Integers, Sequences, FiniteSets, TLC

(***************************************************************************)
(* Values.  Identifiers are integers; Python's None and '' are kept apart  *)
(* because SQL treats them differently (NULL never collides in a UNIQUE    *)
(* index, '' does) while Python's truth test treats both as false.         *)
(***************************************************************************)
NONE == 0
EMPTY == -1

\* A text of white space only: not empty, empty once stripped.
BLANK == -2

Falsy(x) == x \in {NONE, EMPTY}

Procs == {1, 2}
Users == {1, 2, 3}
Campaigns == {1, 2}
SuppliedIds == {51}

\* Bounds of the exploration.
MaxCalls == 3
MaxClock == 2
MaxUnread == 2

\* Fixed text values of the program.
DELETED_TEXT == 99
PARTICIPANT == 96
CONV_DELETED_TEXT == 98
ATTACHMENT_TEXT == 97

VARIABLES users, threads, conversations, messages, nextId, now, jobs, campaigns,
          stack, res, calls

vars == <<users, threads, conversations, messages, nextId, now, jobs, campaigns,
          stack, res, calls>>

\* What a step of a running request leaves alone besides the tables.
env == <<now, jobs, campaigns, calls>>

store == <<users, threads, conversations, messages>>

(***************************************************************************)
(* Row helpers (tables are sequences of rows in rowid order).              *)
(***************************************************************************)
Min(S) == CHOOSE x \in S : \A y \in S : x <= y

HasRow(rows, id) == \E i \in DOMAIN rows : rows[i].id = id

RowById(rows, id) == rows[Min({i \in DOMAIN rows : rows[i].id = id})]

(***************************************************************************)
(* Frames and returns.                                                     *)
(***************************************************************************)
Top(p) == stack[p][Len(stack[p])]

At(p, op, pc) == stack[p] # <<>> /\ Top(p).op = op /\ Top(p).pc = pc

Idle(p) == stack[p] = <<>>

\* A return value: ok is FALSE when the function raised; val is the value
\* returned; tag names the branch taken; aux carries bookkeeping of the model
\* (how many rows a sync really inserted; whether mark_read reports 'updated').
RvA(ok, val, tag, aux) == [ok |-> ok, val |-> val, tag |-> tag, aux |-> aux]

Rv(ok, val, tag) == RvA(ok, val, tag, 0)

NoRv == Rv(FALSE, NONE, "none")

\* The stack of p after its top frame f moves on to g.
Goto(p, g) == [stack EXCEPT ![p] = SubSeq(@, 1, Len(@) - 1) \o <<g>>]

\* The stack of p after its top frame calls g.
Call(p, f, g) == [stack EXCEPT ![p] = SubSeq(@, 1, Len(@) - 1) \o <<f, g>>]

\* The stack of p after its top frame returns v to its caller.
Return(p, v) ==
  [stack EXCEPT ![p] =
     IF Len(@) = 1 THEN <<>>
     ELSE SubSeq(@, 1, Len(@) - 2) \o <<[@[Len(@) - 1] EXCEPT !.rv = v]>>]

\* A request arrives at an idle process: at most MaxCalls requests are made.
\* The record kept for the request notes its number (seq), the conversations
\* table it found (pre), and whether it has run with every other process
\* idle (solo): a request that arrives meanwhile ends that.
Begin(p, f) ==
  /\ Idle(p)
  /\ calls < MaxCalls
  /\ calls' = calls + 1
  /\ stack' = [stack EXCEPT ![p] = <<f>>]
  /\ res' = [q \in Procs |->
               IF q = p
               THEN [op |-> "none", seq |-> calls + 1,
                     solo |-> \A r \in Procs \ {p} : Idle(r),
                     pre |-> conversations]
               ELSE IF Idle(q) THEN res[q]
               ELSE [res[q] EXCEPT !.solo = FALSE]]

\* The outcome a finished request leaves behind (what the client receives).
Outcome(p, v) ==
  IF Len(stack[p]) = 1
  THEN [res EXCEPT ![p] = [op |-> Top(p).op, arg |-> Top(p).arg, rv |-> v,
                           seq |-> @.seq, solo |-> @.solo, pre |-> @.pre]]
  ELSE res

(***************************************************************************)
(* Thread Registry: MessagingDatabase.create_thread (src/db.py:352-398).   *)
(***************************************************************************)
\* A lookup that finds nothing.
NoThreadByPair(cid, owner) == NONE

\* A lookup by campaign alone, whoever owns the thread.
AnyOwnerThread(cid, owner) ==
  LET I == {i \in DOMAIN threads : threads[i].campaign_id = cid}
  IN IF I = {} THEN NONE ELSE threads[Min(I)].id

\* SELECT id FROM threads WHERE campaign_id = ? AND created_by = ?
ThreadByPair(cid, owner) ==
  LET I == {i \in DOMAIN threads :
              threads[i].campaign_id = cid /\ threads[i].created_by = owner}
  IN IF I = {} THEN NONE ELSE threads[Min(I)].id

\* A store without the constraint (a threads table that predates it).
NoUniquePair(rows, cid, owner) == FALSE

\* UNIQUE(campaign_id, created_by); a NULL campaign id never collides.
UniquePairViolated(rows, cid, owner) ==
  /\ cid # NONE
  /\ \E i \in DOMAIN rows : rows[i].campaign_id = cid /\ rows[i].created_by = owner

\* id TEXT PRIMARY KEY
PrimaryKeyViolated(rows, id) == \E i \in DOMAIN rows : rows[i].id = id

ThreadRow(id, d) ==
  [id |-> id, title |-> d.title, description |-> d.description,
   campaign_id |-> d.campaign_id, created_by |-> d.created_by,
   status |-> d.status, created_at |-> now, updated_at |-> now]

CreateThreadFrame(d) == [op |-> "create_thread", pc |-> "lookup", arg |-> d]

\* Lines 360-369: the existence lookup.
CT_Lookup(p) ==
  /\ At(p, "create_thread", "lookup")
  /\ LET d == Top(p).arg
         existing == ThreadByPair(d.campaign_id, d.created_by)
     IN IF ~Falsy(d.campaign_id) /\ ~Falsy(d.created_by) /\ existing # NONE
        THEN /\ stack' = Return(p, Rv(TRUE, existing, "existing"))
             /\ res' = Outcome(p, Rv(TRUE, existing, "existing"))
        ELSE /\ stack' = Goto(p, [Top(p) EXCEPT !.pc = "insert"])
             /\ res' = res
  /\ UNCHANGED <<store, nextId, env>>

\* Lines 371-396: the insert, and the handler of sqlite3.IntegrityError.
CT_Insert(p) ==
  /\ At(p, "create_thread", "insert")
  /\ LET d == Top(p).arg
         id == IF d.id = NONE THEN nextId ELSE d.id
         existing == ThreadByPair(d.campaign_id, d.created_by)
     IN IF PrimaryKeyViolated(threads, id)
           \/ UniquePairViolated(threads, d.campaign_id, d.created_by)
        THEN LET v == IF ~Falsy(d.campaign_id) /\ ~Falsy(d.created_by)
                         /\ existing # NONE
                      THEN Rv(TRUE, existing, "raced")
                      ELSE Rv(FALSE, NONE, "IntegrityError")
             IN /\ stack' = Return(p, v)
                /\ res' = Outcome(p, v)
                /\ UNCHANGED <<threads, nextId>>
        ELSE /\ threads' = Append(threads, ThreadRow(id, d))
             /\ nextId' = IF d.id = NONE THEN nextId + 1 ELSE nextId
             /\ stack' = Return(p, Rv(TRUE, id, "created"))
             /\ res' = Outcome(p, Rv(TRUE, id, "created"))
  /\ UNCHANGED <<users, conversations, messages, env>>

\* POST /messages/threads (src/app.py:492-500): the request body is passed to
\* create_thread with created_by overwritten by the authenticated user.
ThreadData(id, title, cid, owner) ==
  [id |-> id, title |-> title, description |-> title, campaign_id |-> cid,
   created_by |-> owner, status |-> "active"]

PostThread(p) ==
  /\ \E id \in {NONE} \cup SuppliedIds, cid \in {1, NONE, EMPTY}, u \in {1} :
       /\ users[u].exists
       /\ Begin(p, CreateThreadFrame(ThreadData(id, 2, cid, u)))
  /\ UNCHANGED <<store, nextId, now, jobs, campaigns>>

\* create_thread called on the store directly, as setup_demo_data.py does:
\* id, title and status as (none, 2, active), (51, 3, archived) or
\* (1, 3, active), for any campaign id and owner.
CallCreateThread(p) ==
  /\ \E d \in {<<NONE, 2, "active">>, <<51, 3, "archived">>, <<1, 3, "active">>},
        cid \in {1, EMPTY}, u \in {1, 2} :
       Begin(p, CreateThreadFrame([ThreadData(d[1], d[2], cid, u) EXCEPT !.status = d[3]]))
  /\ UNCHANGED <<store, nextId, now, jobs, campaigns>>

(***************************************************************************)
(* Campaign Sync Engine: sync_user_campaign_threads (src/app.py:67-170).   *)
(* The campaign service's answer is the listing held in campaigns (owner   *)
(* role) and jobs (collaborator role, one entry per page); every fetch may *)
(* also fail (HyptrbAPIError).                                             *)
(***************************************************************************)
Job(cid, name) == [cid |-> cid, name |-> name]

\* Lines 92-103: one create_thread per listed campaign with a non-empty id.
RECURSIVE ClientTodo(_)
ClientTodo(cs) ==
  IF cs = <<>> THEN <<>>
  ELSE (IF Falsy(Head(cs).cid) THEN <<>> ELSE <<Head(cs)>>) \o ClientTodo(Tail(cs))

\* A grouping that keeps every job with a campaign id, repeated or not.
RECURSIVE JobsUngrouped(_, _)
JobsUngrouped(js, seen) ==
  IF js = <<>> THEN <<>>
  ELSE (IF Falsy(Head(js).cid) THEN <<>> ELSE <<Head(js)>>)
         \o JobsUngrouped(Tail(js), seen)

\* Lines 133-143: campaigns_dict, first occurrence of a campaign id wins.
RECURSIVE CampaignsDict(_, _)
CampaignsDict(js, seen) ==
  IF js = <<>> THEN <<>>
  ELSE IF Falsy(Head(js).cid) \/ Head(js).cid \in seen
       THEN CampaignsDict(Tail(js), seen)
       ELSE <<Head(js)>> \o CampaignsDict(Tail(js), seen \cup {Head(js).cid})

SyncFrame(uid, role) ==
  [op |-> "sync", pc |-> "start", arg |-> [uid |-> uid, role |-> role],
   page |-> 1, total_pages |-> 0, all_jobs |-> <<>>, todo |-> <<>>,
   threads_created |-> 0, added |-> 0, rv |-> NoRv]

SyncData(uid, c) ==
  [id |-> NONE, title |-> c.name, description |-> c.name, campaign_id |-> c.cid,
   created_by |-> uid, status |-> "active"]

\* After the page loop (or at once when there is a single page): build the
\* list of campaigns to create threads for.
AfterPages(f, js, next, total) ==
  IF next > total
  THEN [f EXCEPT !.pc = "loop", !.all_jobs = js, !.page = next,
                 !.total_pages = total, !.todo = CampaignsDict(js, {})]
  ELSE [f EXCEPT !.pc = "pages", !.all_jobs = js, !.page = next,
                 !.total_pages = total]

\* A sync without the handlers of lines 165-168: the error reaches the caller.
FetchRaises(f) == RvA(FALSE, NONE, "upstream_failed", 0)

\* Lines 165-170: HyptrbAPIError (or any other exception) raised by the first
\* fetch is caught and the count so far is returned.
FetchFailed(f) == RvA(TRUE, f.threads_created, "upstream_failed", f.added)

\* Lines 80-89 and 111-122: the role test and the first fetch.
Sync_Start(p) ==
  /\ At(p, "sync", "start")
  /\ LET f == Top(p)
         zero == RvA(TRUE, 0, "nothing", 0)
     IN \/ /\ f.arg.role \notin {"client", "influencer"}
           /\ stack' = Return(p, zero)
           /\ res' = Outcome(p, zero)
        \/ /\ f.arg.role \in {"client", "influencer"}
           /\ stack' = Return(p, FetchFailed(f))
           /\ res' = Outcome(p, FetchFailed(f))
        \/ /\ f.arg.role = "client"
           /\ stack' = Goto(p, [f EXCEPT !.pc = "loop", !.todo = ClientTodo(campaigns)])
           /\ res' = res
        \/ /\ f.arg.role = "influencer"
           /\ stack' = Goto(p, AfterPages(f, IF jobs = <<>> THEN <<>> ELSE jobs[1],
                                          2, Len(jobs)))
           /\ res' = res
  /\ UNCHANGED <<store, nextId, env>>

\* A page loop that a failed page ends.
PageAborts(f) == [f EXCEPT !.pc = "loop", !.todo = CampaignsDict(f.all_jobs, {})]

\* Lines 129-130: the exception of a failed page is caught inside the loop,
\* which goes on with the next page.
PageSkipped(f) == AfterPages(f, f.all_jobs, f.page + 1, f.total_pages)

\* Lines 125-130: the remaining pages; a failed page is skipped.
Sync_Page(p) ==
  /\ At(p, "sync", "pages")
  /\ LET f == Top(p)
     IN \/ stack' = Goto(p, AfterPages(f, f.all_jobs \o jobs[f.page], f.page + 1,
                                       f.total_pages))
        \/ stack' = Goto(p, PageSkipped(f))
  /\ UNCHANGED <<store, nextId, env, res>>

\* Lines 92-109 and 148-163: the loop over the campaigns.  A create_thread
\* that returns counts as one thread created; one that raises is skipped.
Sync_Loop(p) ==
  /\ At(p, "sync", "loop")
  /\ LET f == Top(p)
         g == IF f.rv = NoRv THEN f
              ELSE [f EXCEPT !.rv = NoRv,
                             !.threads_created = IF f.rv.ok THEN @ + 1 ELSE @,
                             !.added = IF f.rv.tag = "created" THEN @ + 1 ELSE @]
         v == RvA(TRUE, g.threads_created, "synced", g.added)
     IN IF g.todo = <<>>
        THEN /\ stack' = Return(p, v)
             /\ res' = Outcome(p, v)
        ELSE /\ stack' = Call(p, [g EXCEPT !.todo = Tail(@)],
                              CreateThreadFrame(SyncData(g.arg.uid, Head(g.todo))))
             /\ res' = res
  /\ UNCHANGED <<store, nextId, env>>

\* GET /messages/threads (src/app.py:441-442) starts a sync with the role
\* stored for the user.
StartSync(p) ==
  /\ \E u \in Users :
       /\ users[u].exists
       /\ Begin(p, SyncFrame(u, users[u].role))
  /\ UNCHANGED <<store, nextId, now, jobs, campaigns>>

(***************************************************************************)
(* Conversation Registry: get_or_create_conversation (src/db.py:460-519),  *)
(* add_participant2_to_conversation (src/db.py:521-539).                   *)
(***************************************************************************)
ConvArg(t, p1, p2, n1, n2, a1, a2, name) ==
  [thread_id |-> t, participant1_id |-> p1, participant2_id |-> p2,
   participant1_name |-> n1, participant2_name |-> n2,
   participant1_avatar |-> a1, participant2_avatar |-> a2, name |-> name]

\* A normalisation that reorders the ids but leaves names and avatars behind.
CanonIdsOnly(a) ==
  IF a.participant1_id > a.participant2_id
  THEN [a EXCEPT !.participant1_id = a.participant2_id,
                 !.participant2_id = a.participant1_id]
  ELSE a

\* Lines 472-480: smaller id first; names and avatars follow their ids.
Canon(a) ==
  IF a.participant1_id > a.participant2_id
  THEN [a EXCEPT !.participant1_id = a.participant2_id,
                 !.participant2_id = a.participant1_id,
                 !.participant1_name = a.participant2_name,
                 !.participant2_name = a.participant1_name,
                 !.participant1_avatar = a.participant2_avatar,
                 !.participant2_avatar = a.participant1_avatar]
  ELSE a

\* SELECT id FROM conversations WHERE thread_id = ? AND participant1_id = ?
\* AND participant2_id = ?
ConvByPair(t, p1, p2) ==
  LET I == {i \in DOMAIN conversations :
              /\ conversations[i].thread_id = t
              /\ conversations[i].participant1_id = p1
              /\ conversations[i].participant2_id = p2}
  IN IF I = {} THEN NONE ELSE conversations[Min(I)].id

ConvRow(id, a) ==
  [id |-> id, thread_id |-> a.thread_id, name |-> a.name,
   participant1_id |-> a.participant1_id,
   participant1_name |-> a.participant1_name,
   participant1_avatar |-> a.participant1_avatar,
   participant2_id |-> a.participant2_id,
   participant2_name |-> a.participant2_name,
   participant2_avatar |-> a.participant2_avatar,
   last_message |-> NONE, last_message_time |-> NONE, unread_count |-> 0,
   status |-> "active", created_at |-> now, updated_at |-> now]

\* A first step that looks the pair up whether participant2 is given or not.
LookupAlways(a) == "lookup"

\* Line 471: without participant2 the function goes straight to its insert.
FirstStep(a) == IF Falsy(a.participant2_id) THEN "insert" ELSE "lookup"

GetOrCreateFrame(a) == [op |-> "get_or_create", arg |-> a, pc |-> FirstStep(a)]

\* Lines 471-489: normalise, then look the pair up.
GOC_Lookup(p) ==
  /\ At(p, "get_or_create", "lookup")
  /\ LET a == Canon(Top(p).arg)
         existing == ConvByPair(a.thread_id, a.participant1_id, a.participant2_id)
     IN IF existing # NONE
        THEN /\ stack' = Return(p, Rv(TRUE, existing, "existing"))
             /\ res' = Outcome(p, Rv(TRUE, existing, "existing"))
        ELSE /\ stack' = Goto(p, [Top(p) EXCEPT !.pc = "insert"])
             /\ res' = res
  /\ UNCHANGED <<store, nextId, env>>

\* Lines 491-517: the insert.  participant1_name is declared NOT NULL.
GOC_Insert(p) ==
  /\ At(p, "get_or_create", "insert")
  /\ LET a0 == Top(p).arg
         a == IF Falsy(a0.participant2_id)
              THEN [a0 EXCEPT !.participant2_id = NONE, !.participant2_name = NONE,
                              !.participant2_avatar = NONE]
              ELSE Canon(a0)
     IN IF a.participant1_name = NONE
        THEN /\ stack' = Return(p, Rv(FALSE, NONE, "IntegrityError"))
             /\ res' = Outcome(p, Rv(FALSE, NONE, "IntegrityError"))
             /\ UNCHANGED <<conversations, nextId>>
        ELSE /\ conversations' = Append(conversations, ConvRow(nextId, a))
             /\ nextId' = nextId + 1
             /\ stack' = Return(p, Rv(TRUE, nextId, "created"))
             /\ res' = Outcome(p, Rv(TRUE, nextId, "created"))
  /\ UNCHANGED <<users, threads, messages, env>>

ConvIndex(id) == {i \in DOMAIN conversations : conversations[i].id = id}

\* get_conversation_by_id (src/db.py:450-458); callers test it for existence.
ConvById(id) == conversations[Min(ConvIndex(id))]

ThreadIds == {threads[i].id : i \in DOMAIN threads}

ConvIds == {conversations[i].id : i \in DOMAIN conversations}

\* An UPDATE that fills the slot whatever it holds.
FillSlotAlways(c, p2, name, avatar) ==
  [c EXCEPT !.participant2_id = p2, !.participant2_name = name,
            !.participant2_avatar = avatar, !.updated_at = now]

\* UPDATE conversations SET participant2_* = ? WHERE id = ? AND
\* participant2_id IS NULL (one row of the table).
FillSlot(c, p2, name, avatar) ==
  IF c.participant2_id = NONE
  THEN [c EXCEPT !.participant2_id = p2, !.participant2_name = name,
                 !.participant2_avatar = avatar, !.updated_at = now]
  ELSE c

\* The direct use of the registry (as setup_demo_data.py and the handlers
\* do): any thread, any two users, names and avatars taken from the users.
CallGetOrCreate(p) ==
  /\ \E t \in ThreadIds, p1 \in Users, p2 \in Users \cup {NONE} :
       /\ p1 # p2
       /\ Begin(p, GetOrCreateFrame(
            ConvArg(t, p1, p2, users[p1].display_name,
                    IF p2 = NONE THEN NONE ELSE users[p2].display_name,
                    users[p1].photo_url,
                    IF p2 = NONE THEN NONE ELSE users[p2].photo_url, NONE)))
  /\ UNCHANGED <<store, nextId, now, jobs, campaigns>>

(***************************************************************************)
(* POST /messages/threads/<id>/conversations: handle_thread_conversations  *)
(* (src/app.py:564-663).                                                   *)
(***************************************************************************)
\* Line 644: f"{title} Discussion".
DiscussionName(title) == 100 + title

PostConvFrame(u, t, other) ==
  [op |-> "post_conversation", pc |-> "check",
   arg |-> [user |-> u, thread_id |-> t, other |-> other], rv |-> NoRv]

\* Lines 571-656: the checks, the participants' names and avatars as the
\* users table holds them (dict.get gives None for a NULL column, its default
\* only for a user that is not stored), then get_or_create_conversation.
PostConv_Check(p) ==
  /\ At(p, "post_conversation", "check")
  /\ LET a == Top(p).arg
         v == IF a.thread_id \notin ThreadIds THEN Rv(FALSE, 404, "thread_not_found")
              ELSE IF RowById(threads, a.thread_id).created_by # a.user
                   THEN Rv(FALSE, 403, "not_owner")
              ELSE NoRv
         known == a.other \in Users /\ users[a.other].exists
         n2 == IF Falsy(a.other) THEN NONE
               ELSE IF known THEN users[a.other].display_name ELSE PARTICIPANT
         a2 == IF Falsy(a.other) THEN NONE
               ELSE IF known THEN users[a.other].photo_url ELSE EMPTY
         name == IF Falsy(a.other)
                 THEN DiscussionName(RowById(threads, a.thread_id).title)
                 ELSE NONE
     IN IF v # NoRv
        THEN /\ stack' = Return(p, v)
             /\ res' = Outcome(p, v)
        ELSE /\ stack' = Call(p, [Top(p) EXCEPT !.pc = "answer"],
                              GetOrCreateFrame(
                                ConvArg(a.thread_id, a.user, a.other,
                                        users[a.user].display_name, n2,
                                        users[a.user].photo_url, a2, name)))
             /\ res' = res
  /\ UNCHANGED <<store, nextId, env>>

\* Lines 658-663; an error of the store reaches require_auth, which answers
\* 401 (src/firebase_auth.py:137-144).
PostConv_Answer(p) ==
  /\ At(p, "post_conversation", "answer")
  /\ LET v == IF Top(p).rv.ok THEN Rv(TRUE, Top(p).rv.val, "ready")
              ELSE Rv(FALSE, 401, Top(p).rv.tag)
     IN /\ stack' = Return(p, v)
        /\ res' = Outcome(p, v)
  /\ UNCHANGED <<store, nextId, env>>

\* The other participant: none, a stored user, or a user not stored yet (4).
StartPostConv(p) ==
  /\ \E u \in Users, t \in ThreadIds, other \in {NONE, 2, 3, 4} :
       Begin(p, PostConvFrame(u, t, other))
  /\ UNCHANGED <<store, nextId, now, jobs, campaigns>>

(***************************************************************************)
(* POST .../conversations/<id>/join: join_conversation                     *)
(* (src/app.py:665-725).                                                   *)
(***************************************************************************)
JoinFrame(u, t, c) ==
  [op |-> "join", pc |-> "check", arg |-> [user |-> u, thread_id |-> t, conv |-> c]]

\* A check that turns nobody away.
NeverOwn(c, u) == FALSE

\* Lines 695-696: the user is participant 1 of the conversation.
OwnConversation(c, u) == c.participant1_id = u

\* Lines 672-706: the checks made before the update.
Join_Check(p) ==
  /\ At(p, "join", "check")
  /\ LET a == Top(p).arg
         v == IF a.thread_id \notin ThreadIds THEN Rv(FALSE, 404, "thread_not_found")
              ELSE IF a.conv \notin ConvIds THEN Rv(FALSE, 404, "conversation_not_found")
              ELSE IF ~Falsy(ConvById(a.conv).participant2_id)
                   THEN Rv(FALSE, 400, "already_has_participant2")
              ELSE IF OwnConversation(ConvById(a.conv), a.user)
                   THEN Rv(FALSE, 400, "own_conversation")
              ELSE IF ~users[a.user].exists THEN Rv(FALSE, 404, "user_not_found")
              ELSE NoRv
     IN IF v # NoRv
        THEN /\ stack' = Return(p, v)
             /\ res' = Outcome(p, v)
        ELSE /\ stack' = Goto(p, [Top(p) EXCEPT !.pc = "update"])
             /\ res' = res
  /\ UNCHANGED <<store, nextId, env>>

\* Lines 708-725: add_participant2_to_conversation and the answer.
Join_Update(p) ==
  /\ At(p, "join", "update")
  /\ LET a == Top(p).arg
         i == Min(ConvIndex(a.conv))
         c == conversations[i]
         d == FillSlot(c, a.user, users[a.user].display_name, users[a.user].photo_url)
         v == IF d # c THEN Rv(TRUE, 200, "joined") ELSE Rv(FALSE, 500, "failed_to_join")
     IN /\ conversations' = [conversations EXCEPT ![i] = d]
        /\ stack' = Return(p, v)
        /\ res' = Outcome(p, v)
  /\ UNCHANGED <<users, threads, messages, nextId, env>>

StartJoin(p) ==
  /\ \E u \in Users, t \in ThreadIds, c \in ConvIds \cup {NONE} :
       Begin(p, JoinFrame(u, t, c))
  /\ UNCHANGED <<store, nextId, now, jobs, campaigns>>

(***************************************************************************)
(* mark_read: update_conversation_read_status_detailed                     *)
(* (src/db.py:550-591), reached through PUT on a conversation              *)
(* (src/app.py:881-936).                                                   *)
(***************************************************************************)
\* A test that takes every conversation for one of the thread.
AnyThread(c, t) == FALSE

\* src/app.py:895-897: the conversation is not one of the thread.
WrongThread(c, t) == ConvById(c).thread_id # t

\* The checks every conversation request passes first (src/app.py:889-906);
\* NoRv when the request may go on.
ConversationGate(u, t, c) ==
  IF t \notin ThreadIds THEN Rv(FALSE, 404, "thread_not_found")
  ELSE IF c \notin ConvIds THEN Rv(FALSE, 404, "conversation_not_found")
  ELSE IF WrongThread(c, t) THEN Rv(FALSE, 400, "wrong_thread")
  ELSE IF ConvById(c).participant1_id # u /\ ConvById(c).participant2_id # u
       THEN Rv(FALSE, 403, "not_participant")
  ELSE NoRv

MarkReadFrame(c) ==
  [op |-> "mark_read", pc |-> "read", arg |-> [conv |-> c], current_unread_count |-> 0]

PutFrame(u, t, c) ==
  [op |-> "put_conversation", pc |-> "check",
   arg |-> [user |-> u, thread_id |-> t, conv |-> c], rv |-> NoRv]

\* src/app.py:889-919: the gate, then the call of the store.
Put_Check(p) ==
  /\ At(p, "put_conversation", "check")
  /\ LET a == Top(p).arg
         v == ConversationGate(a.user, a.thread_id, a.conv)
     IN IF v # NoRv
        THEN /\ stack' = Return(p, v)
             /\ res' = Outcome(p, v)
        ELSE /\ stack' = Call(p, [Top(p) EXCEPT !.pc = "answer"], MarkReadFrame(a.conv))
             /\ res' = res
  /\ UNCHANGED <<store, nextId, env>>

\* src/app.py:921-936: the answer built from the store's result.
Put_Answer(p) ==
  /\ At(p, "put_conversation", "answer")
  /\ LET v == Top(p).rv
         w == IF v.ok THEN v ELSE RvA(FALSE, 404, v.tag, 0)
     IN /\ stack' = Return(p, w)
        /\ res' = Outcome(p, w)
  /\ UNCHANGED <<store, nextId, env>>

\* What the store reports; aux is 1 when 'updated' is true, val is the
\* cleared_unread_count.
MarkReadResult(reason, n) ==
  CASE reason = "conversation_not_found" -> RvA(FALSE, 0, reason, 0)
    [] reason = "already_read" -> RvA(TRUE, 0, reason, 0)
    [] OTHER -> RvA(TRUE, n, reason, 1)

\* src/db.py:554-568 and 583-589: read the counter.
MR_Read(p) ==
  /\ At(p, "mark_read", "read")
  /\ LET c == Top(p).arg.conv
     IN IF c \notin ConvIds
        THEN /\ stack' = Return(p, MarkReadResult("conversation_not_found", 0))
             /\ res' = Outcome(p, MarkReadResult("conversation_not_found", 0))
        ELSE IF ConvById(c).unread_count > 0
        THEN /\ stack' = Goto(p, [Top(p) EXCEPT !.pc = "update",
                                    !.current_unread_count = ConvById(c).unread_count])
             /\ res' = res
        ELSE /\ stack' = Return(p, MarkReadResult("already_read", 0))
             /\ res' = Outcome(p, MarkReadResult("already_read", 0))
  /\ UNCHANGED <<store, nextId, env>>

\* A store that leaves the counter as it is.
KeepUnread(c) == c

\* UPDATE conversations SET unread_count = 0 WHERE id = ?  (one row)
ClearUnread(c) == [c EXCEPT !.unread_count = 0]

\* src/db.py:570-582: the update, and the result built from the counter read
\* before it.
MR_Update(p) ==
  /\ At(p, "mark_read", "update")
  /\ LET f == Top(p)
         i == Min(ConvIndex(f.arg.conv))
         v == MarkReadResult("marked_as_read", f.current_unread_count)
     IN /\ conversations' = [conversations EXCEPT ![i] = ClearUnread(@)]
        /\ stack' = Return(p, v)
        /\ res' = Outcome(p, v)
  /\ UNCHANGED <<users, threads, messages, nextId, env>>

StartPut(p) ==
  /\ \E u \in Users, t \in ThreadIds, c \in ConvIds \cup {NONE} :
       Begin(p, PutFrame(u, t, c))
  /\ UNCHANGED <<store, nextId, now, jobs, campaigns>>

(***************************************************************************)
(* Message Store: create_message (src/db.py:636-675), delete_message       *)
(* (src/db.py:701-717), the triggers (src/db.py:136-174), and the handlers *)
(* that reach them (src/app.py:938-1021 and 1027-1078).                    *)
(***************************************************************************)
Coalesce(a, b, c) == IF a # NONE THEN a ELSE IF b # NONE THEN b ELSE c

MsgIndex(id) == {i \in DOMAIN messages : messages[i].id = id}

MsgIds == {messages[i].id : i \in DOMAIN messages}

MsgById(id) == messages[Min(MsgIndex(id))]

\* A trigger that would also count the new message as unread.
OnInsertCounting(m) ==
  [i \in DOMAIN conversations |->
     IF ~m.deleted /\ conversations[i].id = m.conversation_id
     THEN [conversations[i] EXCEPT
             !.last_message = Coalesce(m.text_content, m.content, ATTACHMENT_TEXT),
             !.last_message_time = m.timestamp,
             !.updated_at = now,
             !.unread_count = @ + 1]
     ELSE conversations[i]]

\* Trigger update_conversation_on_message_insert, conversations part.
OnInsertConversations(m) ==
  [i \in DOMAIN conversations |->
     IF ~m.deleted /\ conversations[i].id = m.conversation_id
     THEN [conversations[i] EXCEPT
             !.last_message = Coalesce(m.text_content, m.content, ATTACHMENT_TEXT),
             !.last_message_time = m.timestamp,
             !.updated_at = now]
     ELSE conversations[i]]

\* An insert whose trigger leaves the threads alone.
NoThreadTrigger(m) == threads

\* Trigger update_conversation_on_message_insert, threads part.
OnInsertThreads(m) ==
  [i \in DOMAIN threads |->
     IF ~m.deleted /\ threads[i].id = m.thread_id
     THEN [threads[i] EXCEPT !.updated_at = now]
     ELSE threads[i]]

\* Trigger update_conversation_on_message_delete.
OnDeleteConversations(old, new) ==
  [i \in DOMAIN conversations |->
     IF new.deleted /\ ~old.deleted /\ conversations[i].id = new.conversation_id
     THEN [conversations[i] EXCEPT !.last_message = CONV_DELETED_TEXT,
                                   !.updated_at = now]
     ELSE conversations[i]]

\* message_data as the handler builds it (src/app.py:964-977, 1002-1013).
MessageData(c, t, sender, type, text, atts, hasAtt) ==
  [conversation_id |-> c, thread_id |-> t, sender_id |-> sender, type |-> type,
   content |-> text, text_content |-> text, has_attachment |-> hasAtt,
   attachments |-> atts, timestamp |-> now]

MsgRow(id, d) ==
  [id |-> id, conversation_id |-> d.conversation_id, thread_id |-> d.thread_id,
   sender_id |-> d.sender_id, type |-> d.type, content |-> d.content,
   text_content |-> d.text_content, has_attachment |-> d.has_attachment,
   attachments |-> d.attachments, timestamp |-> d.timestamp,
   deleted |-> FALSE, deleted_at |-> NONE]

PostMessageFrame(u, t, c, path, text, files, sender, jtype) ==
  [op |-> "post_message", pc |-> "check",
   arg |-> [user |-> u, thread_id |-> t, conv |-> c, path |-> path, text |-> text,
            files |-> files, sender |-> sender, jtype |-> jtype],
   rv |-> NoRv]

CreateMessageFrame(d) == [op |-> "create_message", pc |-> "insert", arg |-> d]

\* src/app.py:889-906 and 938-977 / 988-1013: the gate, then message_data.
PostMessage_Check(p) ==
  /\ At(p, "post_message", "check")
  /\ LET a == Top(p).arg
         gate == ConversationGate(a.user, a.thread_id, a.conv)
         v == IF gate # NoRv THEN gate
              ELSE IF a.path = "multipart" /\ a.files = <<>> /\ Falsy(a.text)
                   THEN Rv(FALSE, 400, "no_content")
              ELSE NoRv
         d == IF a.path = "multipart"
              THEN MessageData(a.conv, a.thread_id, a.sender,
                               IF a.files # <<>> THEN "file" ELSE "text",
                               a.text, a.files, a.files # <<>>)
              ELSE MessageData(a.conv, a.thread_id, a.sender, a.jtype, a.text,
                               <<>>, FALSE)
     IN IF v # NoRv
        THEN /\ stack' = Return(p, v)
             /\ res' = Outcome(p, v)
        ELSE /\ stack' = Call(p, [Top(p) EXCEPT !.pc = "answer"], CreateMessageFrame(d))
             /\ res' = res
  /\ UNCHANGED <<store, nextId, env>>

\* src/db.py:648-673 with the insert trigger, one transaction.
CreateMessage_Insert(p) ==
  /\ At(p, "create_message", "insert")
  /\ LET m == MsgRow(nextId, Top(p).arg)
     IN /\ messages' = Append(messages, m)
        /\ conversations' = OnInsertConversations(m)
        /\ threads' = OnInsertThreads(m)
        /\ nextId' = nextId + 1
        /\ stack' = Return(p, Rv(TRUE, m.id, "created"))
        /\ res' = Outcome(p, Rv(TRUE, m.id, "created"))
  /\ UNCHANGED <<users, env>>

\* src/app.py:979-986 / 1015-1021.
PostMessage_Answer(p) ==
  /\ At(p, "post_message", "answer")
  /\ stack' = Return(p, Rv(TRUE, Top(p).rv.val, "sent"))
  /\ res' = Outcome(p, Rv(TRUE, Top(p).rv.val, "sent"))
  /\ UNCHANGED <<store, nextId, env>>

\* Request bodies: JSON with a text; multipart that is empty, a file alone,
\* or a file with a text.
Bodies ==
  { [path |-> "json", text |-> 1, files |-> <<>>],
    [path |-> "multipart", text |-> EMPTY, files |-> <<>>],
    [path |-> "multipart", text |-> EMPTY, files |-> <<"image">>],
    [path |-> "multipart", text |-> 1, files |-> <<"image">>] }

StartPostMessage(p) ==
  /\ \E u \in {1, 3}, t \in ThreadIds, c \in ConvIds, b \in Bodies :
       Begin(p, PostMessageFrame(u, t, c, b.path, b.text, b.files, u, "text"))
  /\ UNCHANGED <<store, nextId, now, jobs, campaigns>>

\* The type a requester may put in the body; multipart requests carry one
\* too, which the handler does not read.
SuppliedTypes == {"text", "file", "image"}

StartPostTyped(p) ==
  /\ \E u \in {1, 3}, t \in ThreadIds, c \in ConvIds, b \in Bodies, ty \in SuppliedTypes :
       Begin(p, PostMessageFrame(u, t, c, b.path, b.text, b.files, u, ty))
  /\ UNCHANGED <<store, nextId, now, jobs, campaigns>>

\* Lines 961 and 998: sender_id is read from the body, the authenticated
\* user standing in only when the body has none.  Here the body names a user.
StartPostAs(p) ==
  /\ \E u \in {1, 3}, t \in ThreadIds, c \in ConvIds, b \in Bodies, sender \in Users :
       Begin(p, PostMessageFrame(u, t, c, b.path, b.text, b.files, sender, "text"))
  /\ UNCHANGED <<store, nextId, now, jobs, campaigns>>

DeleteFrame(u, t, c, m) ==
  [op |-> "delete_message", pc |-> "check",
   arg |-> [user |-> u, thread_id |-> t, conv |-> c, msg |-> m]]

\* A check that lets every user delete.
AnyoneDeletes(m, u) == FALSE

\* src/app.py:1069-1070: the user is not the sender of the message.
NotSender(m, u) == m.sender_id # u

\* src/app.py:1034-1071: the checks of the DELETE request.
Delete_Check(p) ==
  /\ At(p, "delete_message", "check")
  /\ LET a == Top(p).arg
         v == IF a.thread_id \notin ThreadIds THEN Rv(FALSE, 404, "thread_not_found")
              ELSE IF a.conv \notin ConvIds THEN Rv(FALSE, 404, "conversation_not_found")
              ELSE IF a.msg \notin MsgIds THEN Rv(FALSE, 404, "message_not_found")
              ELSE IF MsgById(a.msg).conversation_id # a.conv
                   THEN Rv(FALSE, 400, "wrong_conversation")
              ELSE IF MsgById(a.msg).thread_id # a.thread_id
                   THEN Rv(FALSE, 400, "wrong_thread")
              ELSE IF MsgById(a.msg).deleted THEN Rv(TRUE, 200, "already_deleted")
              ELSE IF NotSender(MsgById(a.msg), a.user)
                   THEN Rv(FALSE, 403, "not_sender")
              ELSE NoRv
     IN IF v # NoRv
        THEN /\ stack' = Return(p, v)
             /\ res' = Outcome(p, v)
        ELSE /\ stack' = Goto(p, [Top(p) EXCEPT !.pc = "update"])
             /\ res' = res
  /\ UNCHANGED <<store, nextId, env>>

\* An UPDATE that marks the row deleted but leaves its content in place.
SoftDeletedKeepContent(m) ==
  [m EXCEPT !.deleted = TRUE, !.deleted_at = now, !.type = "deleted"]

\* An UPDATE that also blanks the sender of the row.
SoftDeletedDisowned(m) ==
  [m EXCEPT !.deleted = TRUE, !.deleted_at = now, !.content = DELETED_TEXT,
            !.text_content = DELETED_TEXT, !.type = "deleted", !.sender_id = NONE]

\* UPDATE messages SET deleted = TRUE, deleted_at = ?, content = ...,
\* text_content = ..., type = 'deleted' WHERE id = ?  (src/db.py:705-713)
SoftDeleted(m) ==
  [m EXCEPT !.deleted = TRUE, !.deleted_at = now, !.content = DELETED_TEXT,
            !.text_content = DELETED_TEXT, !.type = "deleted"]

\* src/app.py:1073-1078 with delete_message and the delete trigger.
Delete_Update(p) ==
  /\ At(p, "delete_message", "update")
  /\ LET i == Min(MsgIndex(Top(p).arg.msg))
         old == messages[i]
         new == SoftDeleted(old)
     IN /\ messages' = [messages EXCEPT ![i] = new]
        /\ conversations' = OnDeleteConversations(old, new)
        /\ stack' = Return(p, Rv(TRUE, 200, "deleted"))
        /\ res' = Outcome(p, Rv(TRUE, 200, "deleted"))
  /\ UNCHANGED <<users, threads, nextId, env>>

StartDelete(p) ==
  /\ \E u \in Users, t \in ThreadIds, c \in ConvIds, m \in MsgIds :
       Begin(p, DeleteFrame(u, t, c, m))
  /\ UNCHANGED <<store, nextId, now, jobs, campaigns>>

(***************************************************************************)
(* GET on a conversation (src/app.py:881-915) and on a message             *)
(* (src/app.py:1027-1062).                                                 *)
(***************************************************************************)
GetMessagesFrame(u, t, c) ==
  [op |-> "get_messages", pc |-> "answer",
   arg |-> [user |-> u, thread_id |-> t, conv |-> c]]

\* db.get_messages (src/db.py:594-613): the ids of the rows of conversation c.
MessagesOf(c) == {messages[i].id : i \in {j \in DOMAIN messages : messages[j].conversation_id = c}}

\* src/app.py:889-915: the gate, then the messages of the conversation.
GetMessages_Answer(p) ==
  /\ At(p, "get_messages", "answer")
  /\ LET a == Top(p).arg
         gate == ConversationGate(a.user, a.thread_id, a.conv)
         v == IF gate # NoRv THEN gate ELSE Rv(TRUE, MessagesOf(a.conv), "messages")
     IN /\ stack' = Return(p, v)
        /\ res' = Outcome(p, v)
  /\ UNCHANGED <<store, nextId, env>>

StartGetMessages(p) ==
  /\ \E u \in Users, t \in ThreadIds, c \in ConvIds :
       Begin(p, GetMessagesFrame(u, t, c))
  /\ UNCHANGED <<store, nextId, now, jobs, campaigns>>

GetMessageFrame(u, t, c, m) ==
  [op |-> "get_message", pc |-> "answer",
   arg |-> [user |-> u, thread_id |-> t, conv |-> c, msg |-> m]]

\* src/app.py:1034-1062: the checks, then the message.
GetMessage_Answer(p) ==
  /\ At(p, "get_message", "answer")
  /\ LET a == Top(p).arg
         v == IF a.thread_id \notin ThreadIds THEN Rv(FALSE, 404, "thread_not_found")
              ELSE IF a.conv \notin ConvIds THEN Rv(FALSE, 404, "conversation_not_found")
              ELSE IF a.msg \notin MsgIds THEN Rv(FALSE, 404, "message_not_found")
              ELSE IF MsgById(a.msg).conversation_id # a.conv
                   THEN Rv(FALSE, 400, "wrong_conversation")
              ELSE IF MsgById(a.msg).thread_id # a.thread_id
                   THEN Rv(FALSE, 400, "wrong_thread")
              ELSE Rv(TRUE, a.msg, "message")
     IN /\ stack' = Return(p, v)
        /\ res' = Outcome(p, v)
  /\ UNCHANGED <<store, nextId, env>>

StartGetMessage(p) ==
  /\ \E u \in Users, t \in ThreadIds, c \in ConvIds, m \in MsgIds :
       Begin(p, GetMessageFrame(u, t, c, m))
  /\ UNCHANGED <<store, nextId, now, jobs, campaigns>>

\* Time passes between any two steps.
Tick ==
  /\ now < MaxClock
  /\ now' = now + 1
  /\ UNCHANGED <<store, nextId, jobs, campaigns, calls, stack, res>>

(***************************************************************************)
(* Admin requests: admin_start_chat (src/app.py:799-879) and join_campaign *)
(* (src/app.py:727-797).                                                   *)
(***************************************************************************)
\* The campaign id "admin_support_<uid>", apart from every upstream id.
AdminCampaign(u) == 10 + u

AdminChatFrame(u, target) ==
  [op |-> "admin_chat", pc |-> "check", arg |-> [user |-> u, target |-> target],
   rv |-> NoRv]

\* Lines 807-848: the checks, then create_thread for the support thread.
AdminChat_Check(p) ==
  /\ At(p, "admin_chat", "check")
  /\ LET a == Top(p).arg
         v == IF users[a.user].role # "admin" THEN Rv(FALSE, 403, "not_admin")
              ELSE IF a.target = a.user THEN Rv(FALSE, 400, "self_chat")
              ELSE IF a.target \notin Users \/ ~users[a.target].exists
                   THEN Rv(FALSE, 404, "user_not_found")
              ELSE NoRv
     IN IF v # NoRv
        THEN /\ stack' = Return(p, v)
             /\ res' = Outcome(p, v)
        ELSE /\ stack' = Call(p, [Top(p) EXCEPT !.pc = "thread_done"],
                              CreateThreadFrame(
                                ThreadData(NONE, users[a.target].display_name,
                                           AdminCampaign(a.target), a.user)))
             /\ res' = res
  /\ UNCHANGED <<store, nextId, env>>

\* Lines 849-863: the conversation between the admin and the user.
AdminChat_Thread(p) ==
  /\ At(p, "admin_chat", "thread_done")
  /\ LET a == Top(p).arg
         v == Top(p).rv
     IN IF ~v.ok
        THEN /\ stack' = Return(p, Rv(FALSE, 500, "failed"))
             /\ res' = Outcome(p, Rv(FALSE, 500, "failed"))
        ELSE /\ stack' = Call(p, [Top(p) EXCEPT !.pc = "conv_done", !.rv = NoRv],
                              GetOrCreateFrame(
                                ConvArg(v.val, a.user, a.target,
                                        users[a.user].display_name,
                                        users[a.target].display_name,
                                        users[a.user].photo_url,
                                        users[a.target].photo_url,
                                        users[a.target].display_name)))
             /\ res' = res
  /\ UNCHANGED <<store, nextId, env>>

\* Lines 865-879: the answer.
AdminChat_Answer(p) ==
  /\ At(p, "admin_chat", "conv_done")
  /\ LET v == IF Top(p).rv.ok THEN Rv(TRUE, Top(p).rv.val, "started")
              ELSE Rv(FALSE, 500, "failed")
     IN /\ stack' = Return(p, v)
        /\ res' = Outcome(p, v)
  /\ UNCHANGED <<store, nextId, env>>

StartAdminChat(p) ==
  /\ \E u \in {2, 3}, target \in {1, 3} : Begin(p, AdminChatFrame(u, target))
  /\ UNCHANGED <<store, nextId, now, jobs, campaigns>>

JoinCampaignFrame(u, cid) ==
  [op |-> "join_campaign", pc |-> "check", arg |-> [user |-> u, campaign_id |-> cid],
   rv |-> NoRv]

\* SELECT * FROM threads WHERE campaign_id = ?  (first row)
ThreadByCampaign(cid) ==
  LET I == {i \in DOMAIN threads : threads[i].campaign_id = cid}
  IN IF I = {} THEN NONE ELSE Min(I)

\* Lines 735-785: the checks, then get_or_create_conversation between the
\* campaign's owner and the admin.
JoinCampaign_Check(p) ==
  /\ At(p, "join_campaign", "check")
  /\ LET a == Top(p).arg
         i == ThreadByCampaign(a.campaign_id)
         v == IF users[a.user].role # "admin" THEN Rv(FALSE, 403, "not_admin")
              ELSE IF i = NONE THEN Rv(FALSE, 404, "thread_not_found")
              ELSE IF threads[i].created_by = a.user THEN Rv(FALSE, 400, "own_campaign")
              ELSE IF threads[i].created_by \notin Users
                   THEN Rv(FALSE, 404, "owner_not_found")
              ELSE NoRv
     IN IF v # NoRv
        THEN /\ stack' = Return(p, v)
             /\ res' = Outcome(p, v)
        ELSE /\ stack' = Call(p, [Top(p) EXCEPT !.pc = "conv_done"],
                              GetOrCreateFrame(
                                ConvArg(threads[i].id, threads[i].created_by, a.user,
                                        users[threads[i].created_by].display_name,
                                        users[a.user].display_name,
                                        users[threads[i].created_by].photo_url,
                                        users[a.user].photo_url,
                                        threads[i].title)))
             /\ res' = res
  /\ UNCHANGED <<store, nextId, env>>

\* Lines 787-794: the answer; an error of the store is not caught here.
JoinCampaign_Answer(p) ==
  /\ At(p, "join_campaign", "conv_done")
  /\ LET v == IF Top(p).rv.ok THEN Rv(TRUE, Top(p).rv.val, "joined_campaign")
              ELSE Rv(FALSE, 500, "failed")
     IN /\ stack' = Return(p, v)
        /\ res' = Outcome(p, v)
  /\ UNCHANGED <<store, nextId, env>>

StartJoinCampaign(p) ==
  /\ \E u \in {2, 3}, cid \in Campaigns :
       Begin(p, JoinCampaignFrame(u, cid))
  /\ UNCHANGED <<store, nextId, now, jobs, campaigns>>

(***************************************************************************)
(* Thread views: GET /messages/threads (src/app.py:396-490) and            *)
(* GET /messages/threads/<id> (src/app.py:534-558).                        *)
(***************************************************************************)
\* A selection that forgets the status of the thread.
ThreadsOfAnyStatus(u) ==
  {i \in DOMAIN threads :
     \/ threads[i].created_by = u
     \/ \E k \in DOMAIN conversations :
          /\ conversations[k].thread_id = threads[i].id
          /\ \/ conversations[k].participant1_id = u
             \/ conversations[k].participant2_id = u}

\* get_threads_for_user (src/db.py:321-340): the active threads the user
\* created or has a conversation in.
UserThreads(u) ==
  {i \in DOMAIN threads :
     /\ threads[i].status = "active"
     /\ \/ threads[i].created_by = u
        \/ \E k \in DOMAIN conversations :
             /\ conversations[k].thread_id = threads[i].id
             /\ \/ conversations[k].participant1_id = u
                \/ conversations[k].participant2_id = u}

\* get_conversations_by_thread(thread_id, user_id) (src/db.py:427-438).
ConversationsByThread(t, u) ==
  {k \in DOMAIN conversations :
     /\ conversations[k].thread_id = t
     /\ conversations[k].status = "active"
     /\ \/ conversations[k].participant1_id = u
        \/ conversations[k].participant2_id = u}

ListFrame(u) ==
  [op |-> "list_threads", pc |-> "sync", arg |-> [user |-> u],
   todo |-> {}, out |-> <<>>, rv |-> NoRv]

\* Lines 415-448: the stored role and email decide whether a sync runs.
List_Sync(p) ==
  /\ At(p, "list_threads", "sync")
  /\ LET f == Top(p)
         u == f.arg.user
     IN stack' = IF users[u].role = ""
                 THEN Goto(p, [f EXCEPT !.pc = "threads"])
                 ELSE Call(p, [f EXCEPT !.pc = "threads"], SyncFrame(u, users[u].role))
  /\ UNCHANGED <<store, nextId, env, res>>

\* Line 451: the threads of the user, as rows read in one SELECT.
List_Threads(p) ==
  /\ At(p, "list_threads", "threads")
  /\ LET f == Top(p)
     IN stack' = Goto(p, [f EXCEPT !.pc = "enrich", !.rv = NoRv,
                                   !.todo = {threads[i] : i \in UserThreads(f.arg.user)}])
  /\ UNCHANGED <<store, nextId, env, res>>

\* Lines 454-490: the rows in the order of ORDER BY updated_at DESC (rows
\* with equal updated_at in any order).  For every conversation of the thread
\* that the user takes part in, the handler calls db.get_last_message, which
\* MessagingDatabase does not define: AttributeError, which require_auth
\* (src/firebase_auth.py:137-144) answers with status 401.
List_Enrich(p) ==
  /\ At(p, "list_threads", "enrich")
  /\ LET f == Top(p)
     IN IF f.todo = {}
        THEN /\ stack' = Return(p, Rv(TRUE, f.out, "threads"))
             /\ res' = Outcome(p, Rv(TRUE, f.out, "threads"))
        ELSE \E r \in f.todo :
               /\ \A o \in f.todo : o.updated_at <= r.updated_at
               /\ IF ConversationsByThread(r.id, f.arg.user) # {}
                  THEN /\ stack' = Return(p, Rv(FALSE, 401, "AttributeError"))
                       /\ res' = Outcome(p, Rv(FALSE, 401, "AttributeError"))
                  ELSE /\ stack' = Goto(p, [f EXCEPT !.todo = @ \ {r},
                                                     !.out = Append(@, r.id)])
                       /\ res' = res
  /\ UNCHANGED <<store, nextId, env>>

StartList(p) ==
  /\ \E u \in Users :
       /\ users[u].exists
       /\ Begin(p, ListFrame(u))
  /\ UNCHANGED <<store, nextId, now, jobs, campaigns>>

\* db.get_threads_for_user called on the store (src/db.py:321-340): the rows
\* come grouped by thread id; ids holds their ids, rows their number.
ThreadsForUserFrame(u) ==
  [op |-> "threads_for_user", pc |-> "select", arg |-> [user |-> u]]

ThreadsForUser_Select(p) ==
  /\ At(p, "threads_for_user", "select")
  /\ LET I == UserThreads(Top(p).arg.user)
         v == Rv(TRUE, [ids |-> {threads[i].id : i \in I}, rows |-> Cardinality(I)],
                 "threads")
     IN /\ stack' = Return(p, v)
        /\ res' = Outcome(p, v)
  /\ UNCHANGED <<store, nextId, env>>

CallThreadsForUser(p) ==
  /\ \E u \in Users : Begin(p, ThreadsForUserFrame(u))
  /\ UNCHANGED <<store, nextId, now, jobs, campaigns>>

\* An access test that knows the creator only.
OwnerOnlyAccess(t, u) ==
  \E i \in DOMAIN threads : threads[i].id = t /\ threads[i].created_by = u

\* user_has_thread_access (src/db.py:409-424): the creator of the thread or a
\* participant of any conversation under it.
UserHasThreadAccess(t, u) ==
  \E i \in DOMAIN threads :
    /\ threads[i].id = t
    /\ \/ threads[i].created_by = u
       \/ \E k \in DOMAIN conversations :
            /\ conversations[k].thread_id = t
            /\ \/ conversations[k].participant1_id = u
               \/ conversations[k].participant2_id = u

\* The ways ORDER BY updated_at DESC may arrange the rows K of conversations.
ByUpdatedDesc(K) ==
  {s \in [1 .. Cardinality(K) -> K] :
     /\ \A i, j \in DOMAIN s : i # j => s[i] # s[j]
     /\ \A i, j \in DOMAIN s :
          i < j => conversations[s[i]].updated_at >= conversations[s[j]].updated_at}

GetThreadFrame(u, t) ==
  [op |-> "get_thread", pc |-> "exists", arg |-> [user |-> u, thread_id |-> t],
   thread |-> NONE]

\* Lines 542-543: db.thread_exists.
GetThread_Exists(p) ==
  /\ At(p, "get_thread", "exists")
  /\ IF Top(p).arg.thread_id \notin ThreadIds
     THEN /\ stack' = Return(p, Rv(FALSE, 404, "thread_not_found"))
          /\ res' = Outcome(p, Rv(FALSE, 404, "thread_not_found"))
     ELSE /\ stack' = Goto(p, [Top(p) EXCEPT !.pc = "access"])
          /\ res' = res
  /\ UNCHANGED <<store, nextId, env>>

\* Lines 545-547: db.user_has_thread_access.
GetThread_Access(p) ==
  /\ At(p, "get_thread", "access")
  /\ IF ~UserHasThreadAccess(Top(p).arg.thread_id, Top(p).arg.user)
     THEN /\ stack' = Return(p, Rv(FALSE, 403, "access_denied"))
          /\ res' = Outcome(p, Rv(FALSE, 403, "access_denied"))
     ELSE /\ stack' = Goto(p, [Top(p) EXCEPT !.pc = "thread"])
          /\ res' = res
  /\ UNCHANGED <<store, nextId, env>>

\* Line 549: db.get_thread_by_id.
GetThread_Thread(p) ==
  /\ At(p, "get_thread", "thread")
  /\ stack' = Goto(p, [Top(p) EXCEPT !.pc = "conversations",
                                     !.thread = RowById(threads, Top(p).arg.thread_id)])
  /\ UNCHANGED <<store, nextId, env, res>>

\* Lines 551-558: the conversations of the thread the user takes part in.
GetThread_Conversations(p) ==
  /\ At(p, "get_thread", "conversations")
  /\ LET f == Top(p)
     IN \E s \in ByUpdatedDesc(ConversationsByThread(f.arg.thread_id, f.arg.user)) :
          LET v == Rv(TRUE, [thread |-> f.thread,
                             conversations |-> [i \in DOMAIN s |-> conversations[s[i]].id]],
                      "thread")
          IN /\ stack' = Return(p, v)
             /\ res' = Outcome(p, v)
  /\ UNCHANGED <<store, nextId, env>>

StartGetThread(p) ==
  /\ \E u \in Users, t \in ThreadIds \cup {NONE} : Begin(p, GetThreadFrame(u, t))
  /\ UNCHANGED <<store, nextId, now, jobs, campaigns>>

(***************************************************************************)
(* determine_message_type (src/app.py:349-390), the display type computed  *)
(* when a message is read.                                                 *)
(***************************************************************************)
\* str.strip()
Strip(x) == IF x = BLANK THEN EMPTY ELSE x

\* Lines 386-390.
WithText(kind, has_text) == IF has_text THEN kind \o "+text" ELSE kind

\* The function applied to a row of messages.  message.get('content', '')
\* is None for a row whose content is NULL, and None has no strip().
DetermineMessageType(m) ==
  IF Falsy(m.text_content) /\ m.content = NONE
  THEN Rv(FALSE, NONE, "AttributeError")
  ELSE LET has_text == ~Falsy(m.text_content) \/ ~Falsy(Strip(m.content))
       IN IF ~m.has_attachment THEN Rv(TRUE, "text", "classified")
          ELSE IF m.attachments = <<>> THEN Rv(TRUE, "text", "classified")
          ELSE Rv(TRUE, WithText(m.attachments[1], has_text), "classified")

ClassifyFrame(m) == [op |-> "determine_message_type", pc |-> "run", arg |-> m]

Classify(p) ==
  /\ At(p, "determine_message_type", "run")
  /\ stack' = Return(p, DetermineMessageType(Top(p).arg))
  /\ res' = Outcome(p, DetermineMessageType(Top(p).arg))
  /\ UNCHANGED <<store, nextId, env>>

\* The rows the append operation can store in conversation 2 of thread 1
\* (JSON bodies carry any text, null included; multipart bodies carry files),
\* and the same rows after a soft delete.
StoredMessages ==
  LET fresh ==
        {MsgRow(5, MessageData(2, 1, 1, IF atts = <<>> THEN "text" ELSE "file",
                               text, atts, atts # <<>>)) :
           text \in {NONE, EMPTY, BLANK, 1},
           atts \in {<<>>, <<"image">>, <<"video", "image">>, <<"file">>}}
  IN {m \in fresh : m.attachments = <<>> \/ m.text_content # NONE}
     \cup {SoftDeleted(m) : m \in fresh}

StartClassify(p) ==
  /\ \E m \in StoredMessages : Begin(p, ClassifyFrame(m))
  /\ UNCHANGED <<store, nextId, now, jobs, campaigns>>

(***************************************************************************)
(* Initial states.  The users have logged in before (their rows and roles  *)
(* are stored); the tables of threads, conversations and messages are      *)
(* empty, as _create_tables leaves them.                                   *)
(***************************************************************************)
UserRole(u) == CASE u = 1 -> "client" [] u = 2 -> "influencer" [] OTHER -> "admin"

UserRow(u) ==
  [exists |-> TRUE, role |-> UserRole(u), display_name |-> u, photo_url |-> u]

(***************************************************************************)
(* ensure_user_exists (src/app.py:172-263), run by every authenticated     *)
(* request, with create_or_update_user (src/db.py:205-259).                *)
(***************************************************************************)
\* What the token says of user u, and what the profile of the campaign
\* service says.
TokenName(u) == u

TokenPicture(u) == u

ProfileName(u) == 20 + u

ProfilePicture(u) == 30 + u

\* A users row: none stored, or one stored with the role still absent.
AbsentUser == [exists |-> FALSE, role |-> "", display_name |-> NONE, photo_url |-> NONE]

RolelessUser(u) ==
  [exists |-> TRUE, role |-> "", display_name |-> TokenName(u), photo_url |-> TokenPicture(u)]

UserData(role, name, photo) == [role |-> role, display_name |-> name, photo_url |-> photo]

EnsureFrame(u) ==
  [op |-> "ensure_user", pc |-> "read", arg |-> [user |-> u],
   data |-> UserData("", NONE, NONE), tag |-> "none", fetched |-> FALSE,
   found |-> FALSE, rv |-> NoRv]

\* Line 191: the row exists and has a role.
Memoized(row) == row.exists /\ row.role # ""

\* Lines 187-191 and 248-258: read the row; with a role stored, user_data is
\* the stored role, name and picture (the token's where the row has none).
Ensure_Read(p) ==
  /\ At(p, "ensure_user", "read")
  /\ LET f == Top(p)
         u == f.arg.user
         row == users[u]
     IN stack' = Goto(p,
          IF Memoized(row)
          THEN [f EXCEPT !.pc = "save", !.tag = "memo",
                         !.data = UserData(row.role,
                                    IF row.display_name # NONE THEN row.display_name
                                    ELSE TokenName(u),
                                    IF row.photo_url # NONE THEN row.photo_url
                                    ELSE TokenPicture(u))]
          ELSE [f EXCEPT !.pc = "fetch"])
  /\ UNCHANGED <<store, nextId, env, res>>

\* Lines 192-245: the role and the profile are asked of the campaign
\* service.  The role fetch fails or finds nothing (user_data from the
\* token alone), or answers and the profile fetch fails (the role, the rest
\* from the token), or both answer.  A client's or collaborator's threads
\* are then synced.
Ensure_Fetch(p) ==
  /\ At(p, "ensure_user", "fetch")
  /\ LET f == Top(p)
         u == f.arg.user
     IN \E o \in {"role_failed", "profile_failed", "fetched"} :
          LET role == IF o = "role_failed" THEN "" ELSE UserRole(u)
              name == IF o = "fetched" THEN ProfileName(u) ELSE TokenName(u)
              photo == IF o = "fetched" THEN ProfilePicture(u) ELSE TokenPicture(u)
              g == [f EXCEPT !.pc = "save", !.tag = o, !.fetched = TRUE,
                             !.data = UserData(role, name, photo)]
          IN stack' = IF role \in {"client", "influencer"}
                      THEN Call(p, g, SyncFrame(u, role))
                      ELSE Goto(p, g)
  /\ UNCHANGED <<store, nextId, env, res>>

\* create_or_update_user, src/db.py:213-214: is there a row?
Ensure_Save(p) ==
  /\ At(p, "ensure_user", "save")
  /\ stack' = Goto(p, [Top(p) EXCEPT !.pc = "write",
                                     !.found = users[Top(p).arg.user].exists])
  /\ UNCHANGED <<store, nextId, env, res>>

\* create_or_update_user, src/db.py:216-257: UPDATE the row that was found,
\* or INSERT one; an INSERT that meets a row stored meanwhile violates the
\* primary key and the request ends in the handler of require_auth.
Ensure_Write(p) ==
  /\ At(p, "ensure_user", "write")
  /\ LET f == Top(p)
         u == f.arg.user
         row == [exists |-> TRUE, role |-> f.data.role,
                 display_name |-> f.data.display_name, photo_url |-> f.data.photo_url]
         v == IF ~f.found /\ users[u].exists
              THEN Rv(FALSE, 401, "IntegrityError")
              ELSE RvA(TRUE, f.data.role, f.tag, IF f.fetched THEN 1 ELSE 0)
     IN /\ users' = IF v.ok THEN [users EXCEPT ![u] = row] ELSE users
        /\ stack' = Return(p, v)
        /\ res' = Outcome(p, v)
  /\ UNCHANGED <<threads, conversations, messages, nextId, env>>

StartEnsure(p) ==
  /\ \E u \in Users : Begin(p, EnsureFrame(u))
  /\ UNCHANGED <<store, nextId, now, jobs, campaigns>>

(***************************************************************************)
(* PUT /users/me: handle_current_user (src/app.py:1196-1218) with          *)
(* create_or_update_user (src/db.py:205-259).                              *)
(***************************************************************************)
\* The role a body may carry: none, or a role by name.
BodyRoles == {"", "admin"}

PutUserFrame(u, role) ==
  [op |-> "put_user", pc |-> "save", arg |-> [user |-> u, role |-> role],
   found |-> FALSE, rv |-> NoRv]

\* create_or_update_user, src/db.py:213-214: is there a row?
PutUser_Save(p) ==
  /\ At(p, "put_user", "save")
  /\ stack' = Goto(p, [Top(p) EXCEPT !.pc = "write",
                                     !.found = users[Top(p).arg.user].exists])
  /\ UNCHANGED <<store, nextId, env, res>>

\* Lines 1202-1212 and src/db.py:216-257: user_data takes the role of the
\* body (None without one), name and picture of the body or else of the
\* token; the row found is updated, or one is inserted.
PutUser_Write(p) ==
  /\ At(p, "put_user", "write")
  /\ LET f == Top(p)
         u == f.arg.user
         row == [exists |-> TRUE, role |-> f.arg.role,
                 display_name |-> TokenName(u), photo_url |-> TokenPicture(u)]
         v == IF ~f.found /\ users[u].exists
              THEN Rv(FALSE, 401, "IntegrityError")
              ELSE Rv(TRUE, f.arg.role, "updated")
     IN /\ users' = IF v.ok THEN [users EXCEPT ![u] = row] ELSE users
        /\ stack' = Return(p, v)
        /\ res' = Outcome(p, v)
  /\ UNCHANGED <<threads, conversations, messages, nextId, env>>

\* A body with a role or without one (the names and pictures of bodies are
\* left out: the token's stand in).
StartPutUser(p) ==
  /\ \E u \in Users, role \in BodyRoles : Begin(p, PutUserFrame(u, role))
  /\ UNCHANGED <<store, nextId, now, jobs, campaigns>>

\* Listings the campaign service may hold: the collaborator's jobs by page,
\* and the owner's campaigns.
Listings ==
  { [jobs |-> << <<Job(1, 1), Job(2, 2)>>, <<Job(1, 2)>> >>,
     campaigns |-> <<Job(1, 1), Job(2, 2)>>],
    [jobs |-> << <<Job(NONE, 1), Job(EMPTY, 2), Job(2, 1)>> >>,
     campaigns |-> <<Job(1, 1), Job(EMPTY, 2), Job(1, 2)>>] }

InitStore ==
  /\ users = [u \in Users |-> UserRow(u)]
  /\ threads = <<>>
  /\ conversations = <<>>
  /\ messages = <<>>
  /\ nextId = 1
  /\ now = 1
  /\ stack = [p \in Procs |-> <<>>]
  /\ res = [p \in Procs |-> [op |-> "none"]]
  /\ calls = 0

Init ==
  /\ InitStore
  /\ \E l \in Listings : jobs = l.jobs /\ campaigns = l.campaigns

\* The store before users 2 and 3 are known: user 1 has a role; user 2 has
\* no row or a row without a role; user 3 has no row.
InitUsers ==
  /\ \E r \in {AbsentUser, RolelessUser(2)} :
       users = [u \in Users |-> IF u = 1 THEN UserRow(1)
                                ELSE IF u = 2 THEN r ELSE AbsentUser]
  /\ threads = <<>>
  /\ conversations = <<>>
  /\ messages = <<>>
  /\ nextId = 1
  /\ now = 1
  /\ stack = [p \in Procs |-> <<>>]
  /\ res = [p \in Procs |-> [op |-> "none"]]
  /\ calls = 0
  /\ \E l \in Listings : jobs = l.jobs /\ campaigns = l.campaigns

\* The empty store and a collaborator's listing of three pages.
InitPages ==
  /\ InitStore
  /\ jobs = << <<Job(1, 1)>>, <<Job(2, 2)>>, <<Job(3, 3), Job(1, 2)>> >>
  /\ campaigns = <<Job(1, 1)>>

\* Users who logged in with a token that carries no name or no picture:
\* user 2 is stored without display_name, user 3 without photo_url.
BareUserRow(u) ==
  [UserRow(u) EXCEPT !.display_name = IF u = 2 THEN NONE ELSE @,
                     !.photo_url = IF u = 3 THEN NONE ELSE @]

\* A store in which user 1 has posted thread 1 for campaign 1 and opened
\* conversation 2 under it, alone or with user 2; done requests so far.
ChatStoreOf(U, P2, N, done) ==
  /\ now = 1
  /\ users = U
  /\ threads = <<ThreadRow(1, ThreadData(NONE, 2, 1, 1))>>
  /\ \E p2 \in P2, n \in N :
       conversations =
         <<[ConvRow(2, ConvArg(1, 1, p2, 1, p2, 1, p2, NONE))
              EXCEPT !.unread_count = n]>>
  /\ messages = <<>>
  /\ nextId = 3
  /\ stack = [p \in Procs |-> <<>>]
  /\ res = [p \in Procs |-> [op |-> "none"]]
  /\ calls = done
  /\ \E l \in Listings : jobs = l.jobs /\ campaigns = l.campaigns

ChatStore(P2, N, done) == ChatStoreOf([u \in Users |-> UserRow(u)], P2, N, done)

\* The same store with full or bare profiles, the slot of conversation 2 open.
InitProfiles ==
  \E U \in {[u \in Users |-> UserRow(u)], [u \in Users |-> BareUserRow(u)]} :
    ChatStoreOf(U, {NONE}, {0}, 0)

\* A store with two threads: thread 1 of user 1 with conversation 2 (slot
\* open, MaxUnread unread) and its message 5; thread 3 of user 3 with
\* conversation 4.
InitScope ==
  /\ now = 1
  /\ users = [u \in Users |-> UserRow(u)]
  /\ threads = <<ThreadRow(1, ThreadData(NONE, 2, 1, 1)),
                 ThreadRow(3, ThreadData(NONE, 2, 2, 3))>>
  /\ conversations =
       <<[ConvRow(2, ConvArg(1, 1, NONE, 1, NONE, 1, NONE, NONE))
            EXCEPT !.unread_count = MaxUnread, !.last_message = 1,
                   !.last_message_time = 1],
         ConvRow(4, ConvArg(3, 3, NONE, 3, NONE, 3, NONE, NONE))>>
  /\ messages = <<MsgRow(5, MessageData(2, 1, 1, "text", 1, <<>>, FALSE))>>
  /\ nextId = 6
  /\ stack = [p \in Procs |-> <<>>]
  /\ res = [p \in Procs |-> [op |-> "none"]]
  /\ calls = 1
  /\ \E l \in Listings : jobs = l.jobs /\ campaigns = l.campaigns

InitChat == ChatStore({NONE, 2}, {0}, 0)

\* unread_count is a column of the durable file (CREATE TABLE IF NOT EXISTS
\* keeps the rows of earlier runs); no request of this program raises it.
InitMsg == ChatStore({2}, {0}, 0)

InitRead == ChatStore({NONE, 2}, 0 .. MaxUnread, 0)

InitAll == ChatStore({NONE, 2}, {MaxUnread}, 1)

\* Every user stored with the role the campaign service reports, and thread
\* 1 of campaign 1 with its owner's conversation.
InitRoles == ChatStore({NONE}, {0}, 0)

(***************************************************************************)
(* SpecThread: the operations that write the threads table.                *)
(***************************************************************************)
ThreadSteps(p) ==
  \/ PostThread(p)
  \/ CT_Lookup(p)
  \/ CT_Insert(p)
  \/ StartSync(p)
  \/ Sync_Start(p)
  \/ Sync_Page(p)
  \/ Sync_Loop(p)

AdminSteps(p) ==
  \/ StartAdminChat(p)
  \/ AdminChat_Check(p)
  \/ AdminChat_Thread(p)
  \/ AdminChat_Answer(p)
  \/ StartJoinCampaign(p)
  \/ JoinCampaign_Check(p)
  \/ JoinCampaign_Answer(p)

RegistrySteps(p) ==
  \/ GOC_Lookup(p)
  \/ GOC_Insert(p)

ConvSteps(p) ==
  \/ CallGetOrCreate(p)
  \/ StartJoin(p)
  \/ Join_Check(p)
  \/ Join_Update(p)

ReadSteps(p) ==
  \/ StartPut(p)
  \/ Put_Check(p)
  \/ Put_Answer(p)
  \/ MR_Read(p)
  \/ MR_Update(p)

MsgSteps(p) ==
  \/ StartPostMessage(p)
  \/ PostMessage_Check(p)
  \/ CreateMessage_Insert(p)
  \/ PostMessage_Answer(p)
  \/ StartDelete(p)
  \/ Delete_Check(p)
  \/ Delete_Update(p)

NextThread == \E p \in Procs : ThreadSteps(p) \/ AdminSteps(p) \/ RegistrySteps(p)

SpecThread == Init /\ [][NextThread]_vars

(***************************************************************************)
(* SpecConv: the conversation registry and the join request.               *)
(***************************************************************************)
NextConv == \E p \in Procs : ConvSteps(p) \/ RegistrySteps(p)

SpecConv == InitChat /\ [][NextConv]_vars

(***************************************************************************)
(* SpecRead: PUT on a conversation.                                        *)
(***************************************************************************)
NextRead == \E p \in Procs : ReadSteps(p)

SpecRead == InitRead /\ [][NextRead]_vars

(***************************************************************************)
(* SpecMsg: appending and deleting messages while time passes.             *)
(***************************************************************************)
NextMsg == Tick \/ \E p \in Procs : MsgSteps(p)

SpecMsg == InitMsg /\ [][NextMsg]_vars

(***************************************************************************)
(* Spec: every operation on a store that holds a conversation.             *)
(***************************************************************************)
Next ==
  \/ Tick
  \/ \E p \in Procs :
       \/ ThreadSteps(p)
       \/ RegistrySteps(p)
       \/ ConvSteps(p)
       \/ ReadSteps(p)
       \/ MsgSteps(p)

Spec == InitAll /\ [][Next]_vars

(***************************************************************************)
(* SpecRegistry: create_thread called directly on a store with a thread.   *)
(***************************************************************************)
NextRegistry == \E p \in Procs : CallCreateThread(p) \/ CT_Lookup(p) \/ CT_Insert(p)

SpecRegistry == InitChat /\ [][NextRegistry]_vars

(***************************************************************************)
(* SpecSlots: conversations opened by the owner and joined by others.      *)
(***************************************************************************)
NextSlots ==
  \E p \in Procs :
    \/ StartPostConv(p)
    \/ PostConv_Check(p)
    \/ PostConv_Answer(p)
    \/ RegistrySteps(p)
    \/ StartJoin(p)
    \/ Join_Check(p)
    \/ Join_Update(p)

SpecSlots == InitProfiles /\ [][NextSlots]_vars

(***************************************************************************)
(* SpecAppend: messages appended with a type named by the requester.       *)
(***************************************************************************)
NextAppend ==
  \E p \in Procs :
    \/ StartPostTyped(p)
    \/ PostMessage_Check(p)
    \/ CreateMessage_Insert(p)
    \/ PostMessage_Answer(p)

SpecAppend == InitMsg /\ [][NextAppend]_vars

(***************************************************************************)
(* SpecScope: requests that name a thread, a conversation and a message,   *)
(* on a store with two threads.                                            *)
(***************************************************************************)
NextScope ==
  \E p \in Procs :
    \/ StartJoin(p)
    \/ Join_Check(p)
    \/ Join_Update(p)
    \/ ReadSteps(p)
    \/ MsgSteps(p)
    \/ StartGetMessages(p)
    \/ GetMessages_Answer(p)
    \/ StartGetMessage(p)
    \/ GetMessage_Answer(p)

SpecScope == InitScope /\ [][NextScope]_vars

(***************************************************************************)
(* SpecOwners: conversations opened and joined on a store with two threads *)
(* of different owners.                                                    *)
(***************************************************************************)
SpecOwners == InitScope /\ [][NextSlots]_vars

(***************************************************************************)
(* SpecAccess: the threads of a user, read from a store in which threads   *)
(* are created and conversations are opened and joined.                    *)
(***************************************************************************)
NextAccess ==
  \E p \in Procs :
    \/ CallThreadsForUser(p)
    \/ ThreadsForUser_Select(p)
    \/ CallCreateThread(p)
    \/ CT_Lookup(p)
    \/ CT_Insert(p)
    \/ CallGetOrCreate(p)
    \/ RegistrySteps(p)
    \/ StartJoin(p)
    \/ Join_Check(p)
    \/ Join_Update(p)

SpecAccess == InitScope /\ [][NextAccess]_vars

(***************************************************************************)
(* SpecPages: syncs against a listing of three pages.                      *)
(***************************************************************************)
NextPages ==
  \E p \in Procs :
    \/ StartSync(p)
    \/ Sync_Start(p)
    \/ Sync_Page(p)
    \/ Sync_Loop(p)
    \/ CT_Lookup(p)
    \/ CT_Insert(p)

SpecPages == InitPages /\ [][NextPages]_vars

(***************************************************************************)
(* SpecUsers: authenticated accesses of users with and without a role.     *)
(***************************************************************************)
NextUsers ==
  \E p \in Procs :
    \/ StartEnsure(p)
    \/ Ensure_Read(p)
    \/ Ensure_Fetch(p)
    \/ Ensure_Save(p)
    \/ Ensure_Write(p)
    \/ Sync_Start(p)
    \/ Sync_Page(p)
    \/ Sync_Loop(p)
    \/ CT_Lookup(p)
    \/ CT_Insert(p)

SpecUsers == InitUsers /\ [][NextUsers]_vars

(***************************************************************************)
(* SpecSender: appends whose body names the sender, and deletes.           *)
(***************************************************************************)
NextSender ==
  \E p \in Procs :
    \/ StartPostAs(p)
    \/ PostMessage_Check(p)
    \/ CreateMessage_Insert(p)
    \/ PostMessage_Answer(p)
    \/ StartDelete(p)
    \/ Delete_Check(p)
    \/ Delete_Update(p)

SpecSender == InitScope /\ [][NextSender]_vars

(***************************************************************************)
(* SpecRoles: profile updates, authenticated accesses and the admin's join *)
(* of a campaign.                                                          *)
(***************************************************************************)
NextRoles ==
  \E p \in Procs :
    \/ StartPutUser(p)
    \/ PutUser_Save(p)
    \/ PutUser_Write(p)
    \/ StartEnsure(p)
    \/ Ensure_Read(p)
    \/ Ensure_Fetch(p)
    \/ Ensure_Save(p)
    \/ Ensure_Write(p)
    \/ Sync_Start(p)
    \/ Sync_Page(p)
    \/ Sync_Loop(p)
    \/ CT_Lookup(p)
    \/ CT_Insert(p)
    \/ StartJoinCampaign(p)
    \/ JoinCampaign_Check(p)
    \/ JoinCampaign_Answer(p)
    \/ RegistrySteps(p)

SpecRoles == InitRoles /\ [][NextRoles]_vars

(***************************************************************************)
(* SpecType: the display type of stored messages.                          *)
(***************************************************************************)
NextType == Tick \/ \E p \in Procs : StartClassify(p) \/ Classify(p)

SpecType == InitMsg /\ [][NextType]_vars

(***************************************************************************)
(* SpecList: the thread list, with the requests that write threads.        *)
(***************************************************************************)
ListSteps(p) ==
  \/ StartList(p)
  \/ List_Sync(p)
  \/ List_Threads(p)
  \/ List_Enrich(p)

\* The sync runs inside the list request here.
NextList ==
  \E p \in Procs :
    \/ ListSteps(p)
    \/ PostThread(p)
    \/ CT_Lookup(p)
    \/ CT_Insert(p)
    \/ Sync_Start(p)
    \/ Sync_Page(p)
    \/ Sync_Loop(p)

SpecList == InitChat /\ [][NextList]_vars

(***************************************************************************)
(* SpecView: reading one thread while conversations are opened and joined. *)
(***************************************************************************)
GetThreadSteps(p) ==
  \/ StartGetThread(p)
  \/ GetThread_Exists(p)
  \/ GetThread_Access(p)
  \/ GetThread_Thread(p)
  \/ GetThread_Conversations(p)

NextView == \E p \in Procs : GetThreadSteps(p) \/ ConvSteps(p) \/ RegistrySteps(p)

SpecView == InitChat /\ [][NextView]_vars

(***************************************************************************)
(* Properties.  An outcome res[p] describes the last finished request of   *)
(* process p.                                                              *)
(***************************************************************************)
\* The request of p ran with no other request in progress, and none has
\* arrived since.
Alone(p) == res[p].solo /\ calls = res[p].seq

\* The request of p ran alone, the request of q ran alone right after it,
\* and none has arrived since.
Then(p, q) ==
  /\ res[p].solo /\ res[q].solo
  /\ res[q].seq = res[p].seq + 1
  /\ calls = res[q].seq

PairRows(cid, owner) ==
  {i \in DOMAIN threads : threads[i].campaign_id = cid /\ threads[i].created_by = owner}

\* Two finished create_thread calls with the same non-empty pair.
SamePairCalls(p, q) ==
  /\ p # q
  /\ res[p].op = "create_thread" /\ res[q].op = "create_thread"
  /\ res[p].arg.campaign_id = res[q].arg.campaign_id
  /\ res[p].arg.created_by = res[q].arg.created_by
  /\ ~Falsy(res[p].arg.campaign_id) /\ ~Falsy(res[p].arg.created_by)

\* The call of p supplied an explicit id that is the primary key of a thread
\* with another (campaign_id, created_by) pair.
IdTaken(p) ==
  /\ res[p].arg.id # NONE
  /\ \E i \in DOMAIN threads :
       /\ threads[i].id = res[p].arg.id
       /\ \/ threads[i].campaign_id # res[p].arg.campaign_id
          \/ threads[i].created_by # res[p].arg.created_by

Idempotent(p, q) ==
  /\ res[p].rv.ok /\ res[q].rv.ok
  /\ res[p].rv.val = res[q].rv.val
  /\ Cardinality(PairRows(res[p].arg.campaign_id, res[p].arg.created_by)) = 1

\* C1: two create_thread calls with the same non-empty (campaign_id, owner)
\* pair, sequential or interleaved, both return the same thread id, neither
\* raises, and exactly one row with the pair exists.
C1_AnyTwoCreates ==
  \A p, q \in Procs : SamePairCalls(p, q) => Idempotent(p, q)

\* The same holds of the calls whose 'id', if they supply one, is not the
\* primary key of a thread with another pair.
IdempotentUnlessIdTaken ==
  \A p, q \in Procs :
    SamePairCalls(p, q) /\ ~IdTaken(p) /\ ~IdTaken(q) => Idempotent(p, q)

\* C1: both lookups ran before either insert; the loser of the race resolved
\* the constraint violation to the winner's row.
C1_RaceResolved ==
  \E p, q \in Procs :
    /\ SamePairCalls(p, q) /\ ~IdTaken(p) /\ ~IdTaken(q)
    /\ res[p].rv.tag = "created" /\ res[q].rv.tag = "raced"

C10_ReturnsNewlyCreated ==
  \A p \in Procs : res[p].op = "sync" => res[p].rv.val = res[p].rv.aux

Swapped(a, b) ==
  /\ a.thread_id = b.thread_id
  /\ a.participant1_id = b.participant2_id
  /\ a.participant2_id = b.participant1_id
  /\ a.participant1_id # NONE /\ a.participant2_id # NONE

\* What the caller supplied for the participant with this id.
NameOf(a, id) ==
  IF a.participant1_id = id THEN a.participant1_name ELSE a.participant2_name

AvatarOf(a, id) ==
  IF a.participant1_id = id THEN a.participant1_avatar ELSE a.participant2_avatar

\* C3: get_or_create_conversation(T, A, B) followed by
\* get_or_create_conversation(T, B, A) returns the same id, the two calls add
\* at most one row and the second none, and the row holds the smaller id as
\* participant 1, the larger as participant 2, each with its own name and
\* avatar.
C3_CanonicalPair ==
  \A p, q \in Procs :
    (/\ res[p].op = "get_or_create" /\ res[q].op = "get_or_create"
     /\ Then(p, q)
     /\ Swapped(res[p].arg, res[q].arg))
    => /\ res[p].rv.ok /\ res[q].rv.ok
       /\ res[q].rv.val = res[p].rv.val
       /\ Len(conversations) <= Len(res[p].pre) + 1
       /\ Len(conversations) = Len(res[q].pre)
       /\ LET c == ConvById(res[p].rv.val)
              a == res[p].arg
          IN /\ c.participant1_id < c.participant2_id
             /\ {c.participant1_id, c.participant2_id}
                  = {a.participant1_id, a.participant2_id}
             /\ c.participant1_name = NameOf(a, c.participant1_id)
             /\ c.participant2_name = NameOf(a, c.participant2_id)
             /\ c.participant1_avatar = AvatarOf(a, c.participant1_id)
             /\ c.participant2_avatar = AvatarOf(a, c.participant2_id)

\* C3: the first call, given the larger id first, created the row; the
\* second, given the smaller id first, found it.
C3_ReversedThenFound ==
  \E p, q \in Procs :
    /\ res[p].op = "get_or_create" /\ res[q].op = "get_or_create"
    /\ Then(p, q)
    /\ Swapped(res[p].arg, res[q].arg)
    /\ res[p].arg.participant1_id > res[p].arg.participant2_id
    /\ res[p].rv.tag = "created" /\ res[q].rv.tag = "existing"

\* Two join requests for one conversation by different users, neither of
\* them its participant 1, that both found participant 2 unset.
JoinRace(p, q) ==
  /\ p # q
  /\ res[p].op = "join" /\ res[q].op = "join"
  /\ res[p].arg.conv = res[q].arg.conv
  /\ res[p].arg.user # res[q].arg.user
  /\ \A r \in {p, q} :
       /\ HasRow(res[r].pre, res[r].arg.conv)
       /\ RowById(res[r].pre, res[r].arg.conv).participant2_id = NONE
       /\ RowById(res[r].pre, res[r].arg.conv).participant1_id
            \notin {res[p].arg.user, res[q].arg.user}

\* One of the two joined, the other did not, and the row holds the one who
\* joined; rejected holds the results that count as the other's rejection.
OneJoins(p, q, rejected) ==
  \E w, l \in {p, q} :
    /\ w # l
    /\ res[w].rv.ok /\ ~res[l].rv.ok
    /\ res[l].rv.tag \in rejected
    /\ ConvById(res[w].arg.conv).participant2_id = res[w].arg.user

\* C4: of two concurrent joins of an open conversation by different users
\* exactly one succeeds, the other is rejected as a conflict ("Conversation
\* already has a second participant"), and participant 2 is the one who
\* succeeded.
C4_LoserGetsConflict ==
  \A p, q \in Procs :
    JoinRace(p, q) => OneJoins(p, q, {"already_has_participant2"})

\* Exclusivity alone: the loser is turned away either by the check or by the
\* conditional update ("Failed to join conversation", status 500).
JoinExclusive ==
  \A p, q \in Procs :
    JoinRace(p, q) => OneJoins(p, q, {"already_has_participant2", "failed_to_join"})

\* C4: both requests passed the check before either update; the second
\* update changed no row.
C4_BothPassedCheck ==
  \E p, q \in Procs :
    /\ JoinRace(p, q)
    /\ res[p].rv.tag = "joined" /\ res[q].rv.tag = "failed_to_join"

\* No step changes or clears participant 1 of a conversation, or a filled
\* participant 2 slot.
SlotsKept ==
  \A i \in DOMAIN conversations :
    /\ i \in DOMAIN conversations'
    /\ conversations'[i].id = conversations[i].id
    /\ conversations'[i].participant1_id = conversations[i].participant1_id
    /\ conversations[i].participant2_id # NONE =>
         /\ conversations'[i].participant2_id = conversations[i].participant2_id
         /\ conversations'[i].participant2_name = conversations[i].participant2_name
         /\ conversations'[i].participant2_avatar = conversations[i].participant2_avatar

\* Every row is created with its participant 1.
CreatedWithParticipant1 ==
  \A i \in DOMAIN conversations' :
    i \notin DOMAIN conversations => conversations'[i].participant1_id # NONE

\* A join request that ends while the slot is filled fails and changes no
\* conversation.
JoinOnFilledFails ==
  \A p \in Procs :
    (/\ stack[p] # <<>> /\ Top(p).op = "join" /\ stack'[p] = <<>>
     /\ Top(p).arg.conv \in ConvIds
     /\ ConvById(Top(p).arg.conv).participant2_id # NONE)
    => ~res'[p].rv.ok /\ conversations' = conversations

\* C5: participant slots are monotone: participant 1 is set at creation and
\* never changed, a filled participant 2 slot (id, name, avatar) is never
\* changed by any operation, and a join against a filled slot fails and
\* leaves the conversation unchanged.
C5_SlotsMonotone ==
  [][SlotsKept /\ CreatedWithParticipant1 /\ JoinOnFilledFails]_vars

\* C5: a join passed its check, found the slot filled by another user at its
\* update and failed; the other user is still participant 2.
C5_LateJoinTurnedAway ==
  \E p \in Procs :
    /\ res[p].op = "join" /\ res[p].rv.tag = "failed_to_join"
    /\ ConvById(res[p].arg.conv).participant2_id \notin {NONE, res[p].arg.user}

\* A DELETE request of p is answered with success in this step.
DeleteAnswered(p) ==
  /\ stack[p] # <<>> /\ Top(p).op = "delete_message" /\ stack'[p] = <<>>
  /\ res'[p].rv.ok

\* C6: after soft_delete(m) the content and text_content of m are the
\* placeholder and its type is the deletion marker; a soft_delete of a
\* message that is deleted already succeeds and leaves deleted_at and every
\* other field of m unchanged.
C6_SecondDeleteChangesNothing ==
  [][\A p \in Procs :
       DeleteAnswered(p) =>
         LET m == Top(p).arg.msg
         IN /\ RowById(messages', m).content = DELETED_TEXT
            /\ RowById(messages', m).text_content = DELETED_TEXT
            /\ RowById(messages', m).type = "deleted"
            /\ MsgById(m).deleted => RowById(messages', m) = MsgById(m)]_vars

\* C6: a DELETE request found the message deleted and answered "Message
\* already deleted".
C6_AlreadyDeletedAnswered ==
  \E p \in Procs :
    /\ res[p].op = "delete_message" /\ res[p].rv.tag = "already_deleted"
    /\ MsgById(res[p].arg.msg).deleted

DeletedShape ==
  \A i \in DOMAIN messages :
    messages[i].deleted =>
      /\ messages[i].content = DELETED_TEXT
      /\ messages[i].text_content = DELETED_TEXT
      /\ messages[i].type = "deleted"
      /\ messages[i].deleted_at # NONE

StaysDeleted ==
  \A i \in DOMAIN messages :
    messages[i].deleted =>
      /\ i \in DOMAIN messages'
      /\ messages'[i].id = messages[i].id
      /\ messages'[i].deleted
      /\ messages'[i].content = DELETED_TEXT
      /\ messages'[i].text_content = DELETED_TEXT

\* C7: in every reachable state a deleted message has the placeholder as
\* content and text_content, the deletion marker as type and a deleted_at;
\* and no step makes a deleted message undeleted or restores its content.
C7_DeletedForGood == []DeletedShape /\ [][StaysDeleted]_vars

\* C7: a message was deleted and another was appended to the store after it.
C7_DeletedThenAppended ==
  \E i, j \in DOMAIN messages :
    i < j /\ messages[i].deleted /\ ~messages[j].deleted

\* The PUT request of p names a conversation of the stated thread in which
\* its user takes part.
PutAdmitted(p) ==
  /\ HasRow(res[p].pre, res[p].arg.conv)
  /\ RowById(res[p].pre, res[p].arg.conv).thread_id = res[p].arg.thread_id
  /\ res[p].arg.user \in {RowById(res[p].pre, res[p].arg.conv).participant1_id,
                          RowById(res[p].pre, res[p].arg.conv).participant2_id}

\* The table pre with the counter of conversation c cleared.
Cleared(pre, c) ==
  [i \in DOMAIN pre |-> IF pre[i].id = c THEN [pre[i] EXCEPT !.unread_count = 0]
                        ELSE pre[i]]

\* What one mark_read does, by the counter it finds.
MarkReadAlone(p) ==
  LET c == res[p].arg.conv
      pre == res[p].pre
  IN IF ~HasRow(pre, c)
     THEN /\ ~res[p].rv.ok /\ res[p].rv.tag = "conversation_not_found"
          /\ conversations = pre
     ELSE IF ~PutAdmitted(p)
     THEN ~res[p].rv.ok /\ conversations = pre
     ELSE IF RowById(pre, c).unread_count = 0
     THEN /\ res[p].rv.ok /\ res[p].rv.aux = 0
          /\ conversations = pre
     ELSE /\ res[p].rv.ok /\ res[p].rv.aux = 1
          /\ res[p].rv.val = RowById(pre, c).unread_count
          /\ conversations = Cleared(pre, c)

\* C8: mark_read with unread_count = 0 reports updated = false and changes
\* nothing; with unread_count = N > 0 it sets the counter to 0 and reports
\* updated = true and N cleared; the mark_read right after it reports
\* updated = false; for an unknown conversation it reports not-found and
\* changes nothing.
C8_MarkRead ==
  /\ \A p \in Procs :
       res[p].op = "put_conversation" /\ Alone(p) => MarkReadAlone(p)
  /\ \A p, q \in Procs :
       (/\ res[p].op = "put_conversation" /\ res[q].op = "put_conversation"
        /\ Then(p, q)
        /\ res[q].arg = res[p].arg
        /\ res[p].rv.ok /\ res[p].rv.aux = 1)
       => res[q].rv.ok /\ res[q].rv.aux = 0

\* C8: a mark_read cleared MaxUnread unread messages and the same request,
\* made again, found the conversation read.
C8_ClearedThenNoOp ==
  \E p, q \in Procs :
    /\ res[p].op = "put_conversation" /\ res[q].op = "put_conversation"
    /\ Then(p, q)
    /\ res[q].arg = res[p].arg
    /\ res[p].rv.aux = 1 /\ res[p].rv.val = MaxUnread
    /\ res[q].rv.tag = "already_read"

\* Two PUT requests for one conversation that both found it unread.
ReadRace(p, q) ==
  /\ p # q
  /\ res[p].op = "put_conversation" /\ res[q].op = "put_conversation"
  /\ res[p].arg.conv = res[q].arg.conv
  /\ \A r \in {p, q} :
       /\ HasRow(res[r].pre, res[r].arg.conv)
       /\ RowById(res[r].pre, res[r].arg.conv).unread_count > 0

\* C9: of two concurrent mark_read calls on a conversation with
\* unread_count = N > 0 at most one reports updated = true.
C9_AtMostOneClears ==
  \A p, q \in Procs :
    ReadRace(p, q) => ~(res[p].rv.aux = 1 /\ res[q].rv.aux = 1)

\* C9: both calls read the counter before either update, and both report
\* the same N cleared.
C9_BothReportCleared ==
  \E p, q \in Procs :
    /\ ReadRace(p, q)
    /\ res[p].rv.aux = 1 /\ res[q].rv.aux = 1
    /\ res[p].rv.val = res[q].rv.val

(***************************************************************************)
(* Campaign sync on the store.                                             *)
(***************************************************************************)
RECURSIVE AllPages(_)
AllPages(ps) == IF ps = <<>> THEN <<>> ELSE Head(ps) \o AllPages(Tail(ps))

\* The campaigns a sync for the role works through when every fetch answers.
Upstream(role) ==
  IF role = "client" THEN ClientTodo(campaigns)
  ELSE CampaignsDict(AllPages(jobs), {})

UpstreamIds(role) == {Upstream(role)[i].cid : i \in DOMAIN Upstream(role)}

\* A finished sync that fetched the whole listing and got a thread id for
\* every campaign in it.
SyncDone(p) ==
  /\ res[p].op = "sync" /\ res[p].rv.tag = "synced"
  /\ res[p].rv.val = Len(Upstream(res[p].arg.role))

\* A sync for user u is in progress in process p.
SyncOf(p, u) ==
  stack[p] # <<>> /\ stack[p][1].op = "sync" /\ stack[p][1].arg.uid = u

OneThreadPerCampaign ==
  \A p \in Procs :
    SyncDone(p) =>
      \A cid \in UpstreamIds(res[p].arg.role) :
        Cardinality(PairRows(cid, res[p].arg.uid)) = 1

\* Two syncs for one user, however they overlap, add at most one row for
\* each campaign between them.
SyncsAddOnce ==
  \A p, q \in Procs :
    (p # q /\ SyncDone(p) /\ SyncDone(q) /\ res[p].arg.uid = res[q].arg.uid)
    => res[p].rv.aux + res[q].rv.aux <= Cardinality(UpstreamIds(res[p].arg.role))

\* A step of a sync for a user for whom a sync has succeeded adds no row; no
\* step of a sync changes the id, title or description of a stored thread.
SyncAgainAddsNothing ==
  \A p \in Procs :
    (stack[p] # <<>> /\ stack[p][1].op = "sync" /\ stack'[p] # stack[p])
    => /\ \A i \in DOMAIN threads :
            /\ i \in DOMAIN threads'
            /\ threads'[i].id = threads[i].id
            /\ threads'[i].title = threads[i].title
            /\ threads'[i].description = threads[i].description
       /\ (\E q \in Procs : SyncDone(q) /\ res[q].arg.uid = stack[p][1].arg.uid)
          => threads' = threads

\* C11: after a successful sync the user owns exactly one thread for every
\* distinct non-empty campaign id of the upstream listing; a further sync for
\* the user over the same listing, after it or overlapping it, adds no thread
\* row and changes no stored thread's id, title or description.
C11_SyncIdempotent ==
  /\ [](OneThreadPerCampaign /\ SyncsAddOnce)
  /\ [][SyncAgainAddsNothing]_vars

\* C11: a sync created the user's threads and the next sync for the same user
\* found every one of them.
C11_SecondSyncAddsNone ==
  \E p, q \in Procs :
    /\ p # q /\ SyncDone(p) /\ SyncDone(q) /\ Then(p, q)
    /\ res[p].arg.uid = res[q].arg.uid
    /\ res[p].rv.aux > 1 /\ res[q].rv.val > 1 /\ res[q].rv.aux = 0

\* The first fetch of a sync fails in this step.
FirstFetchFails(p) ==
  /\ At(p, "sync", "start")
  /\ stack'[p] = <<>>
  /\ res'[p].rv.tag = "upstream_failed"

\* C12: when the campaign service fails on the owner's campaign listing or
\* on the collaborator's first jobs page, sync_user_campaign_threads raises
\* nothing, returns 0 and leaves the threads table as it was.
C12_FetchFailureDegrades ==
  [][\A p \in Procs :
       FirstFetchFails(p) =>
         /\ res'[p].rv.ok
         /\ res'[p].rv.val = 0
         /\ res'[p].rv.aux = 0
         /\ Len(stack[p]) = 1
         /\ threads' = threads]_vars

\* C12: a sync of an owner and a sync of a collaborator both failed at the
\* first fetch while the store held threads.
C12_BothRolesDegraded ==
  /\ threads # <<>>
  /\ \A p \in Procs :
       /\ res[p].op = "sync" /\ res[p].rv.tag = "upstream_failed"
       /\ res[p].arg.role = (IF p = 1 THEN "client" ELSE "influencer")

(***************************************************************************)
(* Thread views.                                                           *)
(***************************************************************************)
ListedIds(p) == {res[p].rv.val[i] : i \in DOMAIN res[p].rv.val}

\* C13: a thread-list request always completes with a successful response
\* that holds the stored threads the user owns or takes part in, whatever
\* the store holds and whether the campaign service answers or fails.
C13_ListAlwaysAnswers ==
  \A p \in Procs :
    res[p].op = "list_threads" =>
      /\ res[p].rv.ok
      /\ Alone(p) =>
           ListedIds(p) = {threads[i].id : i \in UserThreads(res[p].arg.user)}

\* C13: a list request was answered with the threads of a user who takes
\* part in no conversation.
C13_ListOfBareThreads ==
  \E p \in Procs :
    /\ res[p].op = "list_threads" /\ res[p].rv.ok /\ Alone(p)
    /\ ListedIds(p) # {}
    /\ ListedIds(p) = {threads[i].id : i \in UserThreads(res[p].arg.user)}

\* User u created thread t or takes part in a conversation of the table
\* convs under it.
OwnsOrTakesPart(convs, t, u) ==
  \/ \E i \in DOMAIN threads : threads[i].id = t /\ threads[i].created_by = u
  \/ \E k \in DOMAIN convs :
       /\ convs[k].thread_id = t
       /\ u \in {convs[k].participant1_id, convs[k].participant2_id}

Forbidden(p) == res[p].rv.tag = "access_denied"

ReturnedConvs(p) ==
  {res[p].rv.val.conversations[i] : i \in DOMAIN res[p].rv.val.conversations}

\* A finished get-thread request for a stored thread.
GotThread(p) ==
  /\ res[p].op = "get_thread"
  /\ HasRow(threads, res[p].arg.thread_id)

GetThreadScoped(p) ==
  LET t == res[p].arg.thread_id
      u == res[p].arg.user
  IN /\ Forbidden(p) => ~OwnsOrTakesPart(res[p].pre, t, u)
     /\ ~Forbidden(p) => res[p].rv.ok /\ OwnsOrTakesPart(conversations, t, u)
     /\ OwnsOrTakesPart(res[p].pre, t, u) => res[p].rv.ok
     /\ Alone(p) => (Forbidden(p) <=> ~OwnsOrTakesPart(conversations, t, u))
     /\ res[p].rv.ok =>
          /\ \A c \in ReturnedConvs(p) :
               /\ HasRow(conversations, c)
               /\ RowById(conversations, c).thread_id = t
               /\ u \in {RowById(conversations, c).participant1_id,
                         RowById(conversations, c).participant2_id}
          /\ Alone(p) =>
               ReturnedConvs(p) =
                 {conversations[k].id : k \in ConversationsByThread(t, u)}

\* C14: get-thread T by user X is answered Forbidden exactly when X is
\* neither the owner of T nor a participant of a conversation under T; once
\* X has joined a conversation under T the call succeeds; every conversation
\* it returns is a conversation of T with X as participant 1 or 2.
C14_GetThreadScoped == \A p \in Procs : GotThread(p) => GetThreadScoped(p)

\* C14: user X, who does not own T, joined a conversation under T; the
\* get-thread T that followed succeeded and returned that conversation.
C14_JoinedThenAdmitted ==
  \E p, q \in Procs :
    /\ res[q].op = "join" /\ res[q].rv.tag = "joined"
    /\ GotThread(p) /\ res[p].rv.ok
    /\ Then(q, p)
    /\ res[p].arg.user = res[q].arg.user
    /\ ~OwnsOrTakesPart(res[q].pre, res[p].arg.thread_id, res[p].arg.user)
    /\ ReturnedConvs(p) = {res[q].arg.conv}

(***************************************************************************)
(* Display type.                                                           *)
(***************************************************************************)
Classified(p) == res[p].op = "determine_message_type"

\* What the claim expects for the message m.
ExpectedDisplayType(m) ==
  IF m.attachments = <<>> THEN "text"
  ELSE IF m.text_content \in {NONE, EMPTY} THEN m.attachments[1]
  ELSE m.attachments[1] \o "+text"

\* C15: determine_message_type returns text for every message without an
\* attachment whatever its text; for a message with attachments it returns
\* the kind of the first one (image, video or file) when the text is empty
\* and kind+text when it is not.
C15_DisplayType ==
  \A p \in Procs :
    Classified(p) =>
      /\ res[p].rv.ok
      /\ res[p].rv.val = ExpectedDisplayType(res[p].arg)

\* The same for the messages whose content is not NULL; no classification
\* writes to the store.
DisplayTypeUnlessNull ==
  /\ [](\A p \in Procs :
          Classified(p) /\ res[p].arg.content # NONE =>
            /\ res[p].rv.ok
            /\ res[p].rv.val = ExpectedDisplayType(res[p].arg))
  /\ [][(\E p \in Procs : At(p, "determine_message_type", "run")
                          /\ stack'[p] # stack[p])
        => store' = store]_vars

\* C15: a message with a video and an image attached and a text was
\* classified video+text.
C15_FirstAttachmentWithText ==
  \E p \in Procs :
    /\ Classified(p) /\ res[p].rv.ok
    /\ Len(res[p].arg.attachments) = 2
    /\ res[p].rv.val = "video+text"

(***************************************************************************)
(* create_thread on a stored pair.                                         *)
(***************************************************************************)
\* What the call at the top of p's stack returns in this step.
Returned(p) ==
  IF Len(stack[p]) = 1 THEN res'[p].rv ELSE stack'[p][Len(stack'[p])].rv

\* C16: a create_thread whose (campaign_id, created_by) pair has a row
\* returns the id of that row and leaves the threads table, that row
\* included, and every other table unchanged, whatever id, title,
\* description and status the call supplies.
C16_ExistingPairUntouched ==
  [][\A p \in Procs :
       (/\ stack[p] # <<>> /\ Top(p).op = "create_thread"
        /\ stack'[p] # stack[p]
        /\ ~Falsy(Top(p).arg.campaign_id) /\ ~Falsy(Top(p).arg.created_by)
        /\ PairRows(Top(p).arg.campaign_id, Top(p).arg.created_by) # {})
       => /\ store' = store
          /\ Len(stack'[p]) < Len(stack[p])
          /\ Returned(p).ok
          /\ \A i \in PairRows(Top(p).arg.campaign_id, Top(p).arg.created_by) :
               Returned(p).val = threads[i].id]_vars

\* C16: a call that supplied another id, title and status for the stored
\* pair got the stored id back, and the row is as it was.
C16_OtherDataDiscarded ==
  \E p \in Procs :
    /\ res[p].op = "create_thread" /\ res[p].rv.tag = "existing"
    /\ res[p].rv.val = 1
    /\ res[p].arg.id = 51 /\ res[p].arg.title = 3 /\ res[p].arg.status = "archived"
    /\ threads[1].id = 1 /\ threads[1].title = 2 /\ threads[1].status = "active"

(***************************************************************************)
(* Participant 2.                                                          *)
(***************************************************************************)
Slot2(c) == {c.participant2_id, c.participant2_name, c.participant2_avatar}

\* C17: in every reachable state the id, name and avatar of participant 2 of
\* every conversation are all null or all populated.
C17_SlotAllOrNothing ==
  \A i \in DOMAIN conversations :
    Slot2(conversations[i]) = {NONE} \/ NONE \notin Slot2(conversations[i])

\* C17: a user with a stored name and picture joined and the three fields
\* are populated.
C17_JoinedWithProfile ==
  \E p \in Procs :
    /\ res[p].op = "join" /\ res[p].rv.tag = "joined"
    /\ NONE \notin Slot2(RowById(conversations, res[p].arg.conv))

(***************************************************************************)
(* One conversation per pair.                                              *)
(***************************************************************************)
Pair(c) == {c.participant1_id, c.participant2_id}

\* Rows of thread t whose two participants are the set P.
RowsOfPair(t, P) ==
  {i \in DOMAIN conversations :
     /\ conversations[i].thread_id = t
     /\ conversations[i].participant2_id # NONE
     /\ Pair(conversations[i]) = P}

\* C18: in every reachable state no two conversations of one thread have the
\* same set of two participant ids.
C18_OneConversationPerPair ==
  \A i \in DOMAIN conversations :
    conversations[i].participant2_id # NONE
      => Cardinality(RowsOfPair(conversations[i].thread_id, Pair(conversations[i]))) = 1

\* C18: a get_or_create call found the row of its pair, the only one of that
\* pair in the thread.
C18_PairFoundOnce ==
  \E p \in Procs :
    /\ res[p].op = "get_or_create" /\ res[p].rv.tag = "existing"
    /\ Cardinality(RowsOfPair(res[p].arg.thread_id,
                              {res[p].arg.participant1_id, res[p].arg.participant2_id})) = 1

(***************************************************************************)
(* The unread counter.                                                     *)
(***************************************************************************)
\* This step is the UPDATE of a mark_read.
MarkReadUpdates ==
  \E p \in Procs : At(p, "mark_read", "update") /\ stack'[p] # stack[p]

\* C19: a step changes the unread_count of a conversation only if it is the
\* update of mark_read, which clears it; appending or deleting a message,
\* joining, creating conversations or threads and syncing leave every
\* unread_count as it was, and a conversation is created with none unread, so
\* the counter never increases.
C19_OnlyMarkReadWritesUnread ==
  [][/\ Len(conversations') >= Len(conversations)
     /\ \A i \in DOMAIN conversations :
          /\ conversations'[i].id = conversations[i].id
          /\ conversations'[i].unread_count <= conversations[i].unread_count
          /\ conversations'[i].unread_count # conversations[i].unread_count
               => MarkReadUpdates /\ conversations'[i].unread_count = 0
     /\ \A i \in DOMAIN conversations' \ DOMAIN conversations :
          conversations'[i].unread_count = 0]_vars

\* C19: a message was appended to a conversation, whose last message it is,
\* and the conversation still has the unread messages it had before.
C19_AppendedStillUnread ==
  \E p \in Procs :
    /\ res[p].op = "post_message" /\ res[p].rv.ok
    /\ LET c == ConvById(res[p].arg.conv)
       IN /\ c.last_message # NONE
          /\ c.unread_count = MaxUnread
          /\ RowById(res[p].pre, c.id).unread_count = MaxUnread

(***************************************************************************)
(* The logical type of a stored message.                                   *)
(***************************************************************************)
DerivedType(m) == IF m.attachments # <<>> THEN "file" ELSE "text"

\* C20: every message stored by the append operation has type file if it was
\* appended with at least one attachment and text otherwise, on the multipart
\* and on the JSON request path, whatever type the requester supplied.
C20_TypeFromAttachments ==
  \A i \in DOMAIN messages : messages[i].type = DerivedType(messages[i])

\* The part that holds: a message appended by a multipart request has the
\* derived type, whatever type the form named.
TypeDerivedOnMultipart ==
  \A p \in Procs :
    (res[p].op = "post_message" /\ res[p].rv.ok /\ res[p].arg.path = "multipart")
      => MsgById(res[p].rv.val).type = DerivedType(MsgById(res[p].rv.val))

\* C20: a multipart request that named the type text stored a file message,
\* and a JSON request that named the type text stored a text message.
C20_FileAndTextStored ==
  \E p, q \in Procs :
    /\ res[p].op = "post_message" /\ res[p].rv.ok
    /\ res[q].op = "post_message" /\ res[q].rv.ok
    /\ res[p].arg.path = "multipart" /\ res[p].arg.jtype = "text"
    /\ res[q].arg.path = "json" /\ res[q].arg.jtype = "text"
    /\ MsgById(res[p].rv.val).type = "file"
    /\ MsgById(res[p].rv.val).attachments # <<>>
    /\ MsgById(res[q].rv.val).type = "text"

(***************************************************************************)
(* The summary kept by the insert trigger.                                 *)
(***************************************************************************)
\* The rows a step adds to the messages table.
Appended == {messages'[i] : i \in DOMAIN messages' \ DOMAIN messages}

\* C21: the step that adds a message row also sets the last_message of the
\* owning conversation to the message text, its last_message_time to the
\* message timestamp and the updated_at of the owning thread to the current
\* time, so no state, under any interleaving of requests, holds the new row
\* without them.
C21_AppendUpdatesSummary ==
  [][\A m \in Appended :
       /\ HasRow(conversations', m.conversation_id)
       /\ RowById(conversations', m.conversation_id).last_message
            = Coalesce(m.text_content, m.content, ATTACHMENT_TEXT)
       /\ RowById(conversations', m.conversation_id).last_message_time = m.timestamp
       /\ HasRow(threads', m.thread_id)
       /\ RowById(threads', m.thread_id).updated_at = now]_vars

\* C21: a message was appended while another request was under way and time
\* had passed since the store was set up; the conversation and the thread
\* show it.
C21_AppendedAmidRequests ==
  \E p, q \in Procs :
    /\ p # q
    /\ res[p].op = "post_message" /\ res[p].rv.ok
    /\ ~Idle(q)
    /\ now > 1
    /\ LET m == MsgById(res[p].rv.val)
       IN /\ ~m.deleted
          /\ ConvById(m.conversation_id).last_message = m.text_content
          /\ ConvById(m.conversation_id).last_message_time = m.timestamp
          /\ RowById(threads, m.thread_id).updated_at > 1

\* The messages of conversation c that are not deleted, and the latest of
\* them by timestamp (more than one when timestamps are equal).
LiveMessages(c) ==
  {i \in DOMAIN messages : messages[i].conversation_id = c /\ ~messages[i].deleted}

LatestLive(c) ==
  {i \in LiveMessages(c) :
     \A j \in LiveMessages(c) : messages[j].timestamp <= messages[i].timestamp}

\* C22: in every reachable state the last_message and last_message_time of a
\* conversation that has a message not deleted are the text and the timestamp
\* of the latest such message.
C22_SummaryIsLatestLive ==
  \A k \in DOMAIN conversations :
    LiveMessages(conversations[k].id) # {}
      => \E i \in LatestLive(conversations[k].id) :
           /\ conversations[k].last_message = messages[i].text_content
           /\ conversations[k].last_message_time = messages[i].timestamp

\* The part that holds: after a soft delete that ran alone the conversation
\* shows the placeholder, whichever message was deleted.
DeleteShowsPlaceholder ==
  \A p \in Procs :
    (res[p].op = "delete_message" /\ res[p].rv.ok /\ Alone(p))
      => ConvById(res[p].arg.conv).last_message = CONV_DELETED_TEXT

\* C22: two messages were appended one after the other at different times,
\* none is deleted, and the conversation shows the later one.
C22_LaterOfTwoShown ==
  \E i, j \in DOMAIN messages :
    /\ messages[i].conversation_id = messages[j].conversation_id
    /\ messages[i].timestamp < messages[j].timestamp
    /\ LiveMessages(messages[i].conversation_id) = {i, j}
    /\ ConvById(messages[j].conversation_id).last_message = messages[j].text_content
    /\ ConvById(messages[j].conversation_id).last_message_time = messages[j].timestamp

\* The failure without any race: the older of two messages is deleted, the
\* later one is not, and the conversation shows the placeholder.
OlderDeletedHidesLatest ==
  \E i, j \in DOMAIN messages :
    /\ i < j
    /\ messages[i].conversation_id = messages[j].conversation_id
    /\ messages[i].timestamp < messages[j].timestamp
    /\ messages[i].deleted /\ ~messages[j].deleted
    /\ ConvById(messages[j].conversation_id).last_message = CONV_DELETED_TEXT

(***************************************************************************)
(* Requests whose ids do not belong together.                              *)
(***************************************************************************)
ConversationOps == {"get_messages", "post_message", "put_conversation", "join"}

MessageOps == {"get_message", "delete_message"}

\* The ids of request a of operation op exist, but the conversation is not
\* one of the thread, or the message not one of the conversation or thread.
Mismatched(op, a) ==
  /\ a.thread_id \in ThreadIds
  /\ a.conv \in ConvIds
  /\ \/ ConvById(a.conv).thread_id # a.thread_id
     \/ /\ op \in MessageOps
        /\ a.msg \in MsgIds
        /\ \/ MsgById(a.msg).conversation_id # a.conv
           \/ MsgById(a.msg).thread_id # a.thread_id
  /\ op \in MessageOps => a.msg \in MsgIds

\* Every finished request of Ops with such ids was answered with the
\* mismatch result (400), which is neither NotFound (404) nor Forbidden (403).
RejectedIn(Ops) ==
  \A p \in Procs :
    (res[p].op \in Ops /\ Mismatched(res[p].op, res[p].arg))
      => /\ ~res[p].rv.ok
         /\ res[p].rv.val = 400
         /\ res[p].rv.tag \in {"wrong_thread", "wrong_conversation"}

\* No step of a request of Ops with such ids changes a table.
QuietIn(Ops) ==
  \A p \in Procs :
    (/\ ~Idle(p) /\ stack'[p] # stack[p]
     /\ stack[p][1].op \in Ops
     /\ Mismatched(stack[p][1].op, stack[p][1].arg))
      => UNCHANGED store

\* C23: list messages, append, mark read, join, get message and delete
\* message, given ids that exist but do not belong to the stated parent,
\* answer with the mismatch result and change no stored state.
C23_MismatchRejected ==
  /\ []RejectedIn(ConversationOps \cup MessageOps)
  /\ [][QuietIn(ConversationOps \cup MessageOps)]_vars

\* The part that holds: every such request but join.
MismatchRejectedButJoin ==
  /\ []RejectedIn((ConversationOps \cup MessageOps) \ {"join"})
  /\ [][QuietIn((ConversationOps \cup MessageOps) \ {"join"})]_vars

\* C23: an append and a delete that named the other thread were answered
\* with the mismatch result, and the tables are as they were set up.
C23_AppendAndDeleteTurnedAway ==
  \E p, q \in Procs :
    /\ res[p].op = "post_message" /\ Mismatched("post_message", res[p].arg)
    /\ res[p].rv.tag = "wrong_thread"
    /\ res[q].op = "delete_message" /\ Mismatched("delete_message", res[q].arg)
    /\ res[q].rv.tag = "wrong_thread"
    /\ Len(messages) = 1 /\ ~messages[1].deleted
    /\ conversations = res[p].pre

\* The failure: a join that named thread 3 filled the slot of conversation 2,
\* which is of thread 1.
JoinedThroughOtherThread ==
  \E p \in Procs :
    /\ res[p].op = "join" /\ res[p].rv.tag = "joined"
    /\ res[p].arg.thread_id # ConvById(res[p].arg.conv).thread_id
    /\ ConvById(res[p].arg.conv).participant2_id = res[p].arg.user

(***************************************************************************)
(* Who may join.                                                           *)
(***************************************************************************)
ThreadOwner(t) == RowById(threads, t).created_by

\* User u is participant 1 of conversation c or owns its thread.
FirstOrOwner(c, u) ==
  \/ ConvById(c).participant1_id = u
  \/ ThreadOwner(ConvById(c).thread_id) = u

\* No finished join of such a user succeeded.
OwnJoinRefused ==
  \A p \in Procs :
    (res[p].op = "join" /\ res[p].arg.conv \in ConvIds
     /\ FirstOrOwner(res[p].arg.conv, res[p].arg.user))
      => ~res[p].rv.ok

\* No step of a join of such a user changes the conversations, and a step
\* that fills a slot fills it with a user who is neither.
OwnJoinChangesNothing ==
  /\ \A p \in Procs :
       (/\ ~Idle(p) /\ stack'[p] # stack[p]
        /\ stack[p][1].op = "join" /\ stack[p][1].arg.conv \in ConvIds
        /\ FirstOrOwner(stack[p][1].arg.conv, stack[p][1].arg.user))
         => UNCHANGED conversations
  /\ \A i \in DOMAIN conversations :
       conversations'[i].participant2_id # conversations[i].participant2_id
         => ~FirstOrOwner(conversations[i].id, conversations'[i].participant2_id)

\* C24: a join by participant 1 of the conversation or by the owner of its
\* thread is rejected and leaves the conversation unchanged; only a user who
\* is neither fills participant 2 through join.
C24_OwnJoinRejected == []OwnJoinRefused /\ [][OwnJoinChangesNothing]_vars

\* C24: the owner of thread 3 was refused on the conversation of that
\* thread, whose slot is still open, and filled the slot of a conversation
\* of the other owner's thread.
C24_OwnerRefusedOtherJoined ==
  \E p, q \in Procs :
    /\ res[p].op = "join" /\ res[q].op = "join"
    /\ res[p].arg.user = res[q].arg.user
    /\ res[p].rv.tag = "own_conversation"
    /\ ThreadOwner(ConvById(res[p].arg.conv).thread_id) = res[p].arg.user
    /\ ConvById(res[p].arg.conv).participant2_id = NONE
    /\ res[q].rv.tag = "joined"
    /\ ConvById(res[q].arg.conv).participant2_id = res[q].arg.user

(***************************************************************************)
(* Who may delete.                                                         *)
(***************************************************************************)
\* Process p runs a DELETE request for a stored message of the stated
\* conversation and thread, and its user is not the sender of the message.
ForeignDelete(p) ==
  /\ ~Idle(p) /\ stack[p][1].op = "delete_message"
  /\ LET a == stack[p][1].arg
     IN /\ a.msg \in MsgIds
        /\ MsgById(a.msg).conversation_id = a.conv
        /\ MsgById(a.msg).thread_id = a.thread_id
        /\ MsgById(a.msg).sender_id # a.user

\* Such a request changes no message, and is answered Forbidden when it
\* finds the message not deleted.
ForeignDeleteRefused ==
  \A p \in Procs :
    (ForeignDelete(p) /\ stack'[p] # stack[p])
      => /\ UNCHANGED messages
         /\ stack'[p] = <<>>
         /\ IF MsgById(stack[p][1].arg.msg).deleted
            THEN res'[p].rv.tag = "already_deleted"
            ELSE ~res'[p].rv.ok /\ res'[p].rv.val = 403

\* A message becomes deleted only in a step of a request of its sender.
DeletedBySender ==
  \A i \in DOMAIN messages :
    (~messages[i].deleted /\ messages'[i].deleted)
      => \E p \in Procs :
           /\ At(p, "delete_message", "update") /\ stack'[p] # stack[p]
           /\ Top(p).arg.user = messages[i].sender_id
           /\ messages'[i].sender_id = messages[i].sender_id

\* C25: a delete request by a user who is not the stored sender of the
\* message never changes the message: it is answered Forbidden while the
\* message is not deleted, and under every interleaving a message becomes
\* deleted only through a request of its sender.
C25_OnlySenderDeletes == [][ForeignDeleteRefused /\ DeletedBySender]_vars

\* C25: a participant who is not the sender was refused, the sender then
\* deleted the message.
C25_RefusedThenSenderDeleted ==
  \E p, q \in Procs :
    /\ res[p].op = "delete_message" /\ res[q].op = "delete_message"
    /\ res[p].arg.msg = res[q].arg.msg
    /\ res[p].rv.tag = "not_sender" /\ res[p].arg.user = 2
    /\ res[q].rv.tag = "deleted"
    /\ res[p].seq < res[q].seq
    /\ MsgById(res[q].arg.msg).deleted
    /\ MsgById(res[q].arg.msg).sender_id = res[q].arg.user

(***************************************************************************)
(* Messages are kept.                                                      *)
(***************************************************************************)
\* This step is the UPDATE of a soft delete of message id.
SoftDeletes(id) ==
  \E p \in Procs :
    At(p, "delete_message", "update") /\ stack'[p] # stack[p] /\ Top(p).arg.msg = id

\* C26: no step removes a message row or moves one, and a step changes a
\* stored message only if it is a soft delete of that message, which keeps
\* its id, sender, attachments, timestamp, conversation and thread; so the
\* number of messages of a conversation never decreases.
C26_MessagesAppendOnly ==
  [][/\ Len(messages') >= Len(messages)
     /\ \A i \in DOMAIN messages :
          messages'[i] # messages[i]
            => /\ SoftDeletes(messages[i].id)
               /\ messages'[i].id = messages[i].id
               /\ messages'[i].sender_id = messages[i].sender_id
               /\ messages'[i].attachments = messages[i].attachments
               /\ messages'[i].timestamp = messages[i].timestamp
               /\ messages'[i].conversation_id = messages[i].conversation_id
               /\ messages'[i].thread_id = messages[i].thread_id]_vars

\* C26: a message was appended with an attachment, the conversation was then
\* marked read, and the row is as it was stored.
C26_KeptThroughMarkRead ==
  \E p, q \in Procs :
    /\ res[p].op = "post_message" /\ res[p].rv.ok
    /\ res[q].op = "put_conversation" /\ res[q].rv.ok /\ res[q].rv.aux = 1
    /\ res[p].seq < res[q].seq
    /\ res[q].arg.conv = res[p].arg.conv
    /\ LET m == MsgById(res[p].rv.val)
       IN /\ ~m.deleted
          /\ m.attachments = res[p].arg.files /\ m.attachments # <<>>
          /\ m.sender_id = res[p].arg.sender
          /\ m.text_content = res[p].arg.text

(***************************************************************************)
(* The threads of a user.                                                  *)
(***************************************************************************)
\* The active threads user u has access to.
ActiveWithAccess(u) ==
  {t \in ThreadIds : RowById(threads, t).status = "active" /\ UserHasThreadAccess(t, u)}

\* Thread t has no conversation.
Bare(t) == \A k \in DOMAIN conversations : conversations[k].thread_id # t

\* In every state the selection of get_threads_for_user is, for every user,
\* the set of active threads the user has access to.
SelectionIsAccess ==
  \A u \in Users : {threads[i].id : i \in UserThreads(u)} = ActiveWithAccess(u)

\* The answer of a call: those threads, each once, a thread without
\* conversations for its owner only.
AnsweredWithAccess ==
  \A p \in Procs :
    (At(p, "threads_for_user", "select") /\ stack'[p] # stack[p])
      => LET u == Top(p).arg.user
             v == res'[p].rv.val
         IN /\ v.ids = ActiveWithAccess(u)
            /\ v.rows = Cardinality(v.ids)
            /\ \A t \in ThreadIds :
                 Bare(t) => (t \in v.ids <=> /\ ThreadOwner(t) = u
                                             /\ RowById(threads, t).status = "active")

\* C27: get_threads_for_user(u) returns exactly the active threads u owns or
\* takes part in through a conversation, each once; a thread with no
\* conversation goes to its owner and to nobody else.
C27_ListIsAccess == []SelectionIsAccess /\ [][AnsweredWithAccess]_vars

\* C27: user 2, who owns no thread, joined a conversation of thread 3 and
\* was then given thread 3 and no other.
C27_GuestGivenJoinedThread ==
  \E p, q \in Procs :
    /\ res[p].op = "join" /\ res[p].rv.tag = "joined" /\ res[p].arg.user = 2
    /\ res[q].op = "threads_for_user" /\ res[q].arg.user = 2
    /\ res[p].seq < res[q].seq
    /\ res[q].rv.val.ids = {3}
    /\ ThreadOwner(3) = 3

\* C27: an archived thread was created for user 2, who is given no thread.
C27_ArchivedLeftOut ==
  \E q \in Procs :
    /\ res[q].op = "threads_for_user" /\ res[q].arg.user = 2
    /\ res[q].rv.val.ids = {}
    /\ \E i \in DOMAIN threads :
         threads[i].created_by = 2 /\ threads[i].status = "archived"

(***************************************************************************)
(* The collaborator's campaigns.                                           *)
(***************************************************************************)
\* The pages K of the listing, one after the other in page order.
RECURSIVE PagesInOrder(_, _)
PagesInOrder(K, k) ==
  IF k > Len(jobs) THEN <<>>
  ELSE (IF k \in K THEN jobs[k] ELSE <<>>) \o PagesInOrder(K, k + 1)

\* The first job of js that names campaign cid.
FirstJob(js, cid) == js[Min({i \in DOMAIN js : js[i].cid = cid})]

\* todo is the mapping built from js: one entry for each campaign id of js
\* that is not empty, named as the first job of that campaign names it.
IsGrouping(todo, js) ==
  /\ \A i, j \in DOMAIN todo : i # j => todo[i].cid # todo[j].cid
  /\ {todo[i].cid : i \in DOMAIN todo}
       = {js[i].cid : i \in DOMAIN js} \ {NONE, EMPTY}
  /\ \A i \in DOMAIN todo : todo[i].name = FirstJob(js, todo[i].cid).name

\* The collaborator's sync of p ends its page loop in this step.
PagesDone(p) ==
  /\ stack[p] # <<>> /\ Top(p).op = "sync" /\ Top(p).arg.role = "influencer"
  /\ Top(p).pc \in {"start", "pages"}
  /\ stack'[p] # <<>> /\ Len(stack'[p]) = Len(stack[p])
  /\ stack'[p][Len(stack'[p])].pc = "loop"

\* The collaborator's sync of p issues a create_thread in this step.
IssuesCreate(p) ==
  /\ At(p, "sync", "loop") /\ Top(p).arg.role = "influencer"
  /\ Len(stack'[p]) = Len(stack[p]) + 1

\* C28: when the page loop of a collaborator's sync ends, the jobs gathered
\* are the fetched pages in page order and the campaigns to work through are
\* their grouping by campaign id, first occurrence naming the campaign; each
\* create_thread the sync issues is for the next campaign of that grouping,
\* with the collaborator as creator, and takes it off the list, so there is
\* one per distinct campaign id and none for a job without one.
C28_OneCreatePerCampaign ==
  [][\A p \in Procs :
       /\ PagesDone(p) =>
            LET g == stack'[p][Len(stack'[p])]
            IN /\ \E K \in SUBSET (2 .. Len(jobs)) :
                    g.all_jobs = PagesInOrder(K \cup {1}, 1)
               /\ IsGrouping(g.todo, g.all_jobs)
       /\ IssuesCreate(p) =>
            LET f == Top(p)
                g == stack'[p][Len(stack[p])]
                d == stack'[p][Len(stack'[p])]
            IN /\ f.todo # <<>>
               /\ g.todo = Tail(f.todo)
               /\ d.op = "create_thread"
               /\ d.arg.campaign_id = Head(f.todo).cid
               /\ d.arg.campaign_id \notin {NONE, EMPTY}
               /\ d.arg.created_by = f.arg.uid
               /\ d.arg.title = Head(f.todo).name]_vars

\* C28: a collaborator's sync fetched both pages, in which campaign 1 comes
\* twice under two names, and ended with one thread for each of the two
\* campaigns, campaign 1 under the name of its first job.
C28_TwoPagesTwoThreads ==
  \E p \in Procs :
    /\ res[p].op = "sync" /\ res[p].arg.role = "influencer"
    /\ res[p].rv.tag = "synced" /\ res[p].rv.val = 2
    /\ Len(jobs) = 2
    /\ \E i \in PairRows(1, res[p].arg.uid) : threads[i].title = jobs[1][1].name
    /\ jobs[2][1].cid = 1 /\ jobs[2][1].name # jobs[1][1].name
    /\ Cardinality(PairRows(1, res[p].arg.uid)) = 1
    /\ Cardinality(PairRows(2, res[p].arg.uid)) = 1

(***************************************************************************)
(* Pages that fail.                                                        *)
(***************************************************************************)
\* The campaign ids of the jobs js.
CampaignIds(js) == {js[i].cid : i \in DOMAIN js} \ {NONE, EMPTY}

\* A step of the page loop, whether the fetch answers or fails, goes on to
\* the next page or, after the last, to the campaigns gathered so far.
PageLoopGoesOn ==
  \A p \in Procs :
    (At(p, "sync", "pages") /\ stack'[p] # stack[p])
      => LET f == Top(p)
             g == stack'[p][Len(stack'[p])]
         IN /\ Len(stack'[p]) = Len(stack[p])
            /\ g.page = f.page + 1
            /\ g.pc = IF f.page < f.total_pages THEN "pages" ELSE "loop"
            /\ g.all_jobs \in {f.all_jobs, f.all_jobs \o jobs[f.page]}

\* A sync that ends its loop over the campaigns leaves a thread of its user
\* for every campaign of the jobs it fetched.
FetchedAllHaveThreads ==
  \A p \in Procs :
    (At(p, "sync", "loop") /\ Len(stack'[p]) < Len(stack[p]))
      => \A cid \in CampaignIds(Top(p).all_jobs) :
           PairRows(cid, Top(p).arg.uid) # {}

\* C29: in a collaborator's sync whose first page answered, the failure of a
\* later page does not end the sync: the pages after it are still tried, and
\* the sync leaves a thread for every campaign id of the pages it fetched.
C29_FailedPageSkipped == [][PageLoopGoesOn /\ FetchedAllHaveThreads]_vars

\* C29: page 2 failed and page 3 was fetched: the collaborator has threads
\* for the campaigns of pages 1 and 3 and none for the campaign of page 2.
C29_SecondPageLost ==
  \E p \in Procs :
    /\ res[p].op = "sync" /\ res[p].arg.role = "influencer"
    /\ res[p].rv.tag = "synced" /\ res[p].rv.val = 2
    /\ Len(jobs) = 3
    /\ PairRows(1, res[p].arg.uid) # {}
    /\ PairRows(3, res[p].arg.uid) # {}
    /\ PairRows(2, res[p].arg.uid) = {}

\* No step changes a role that is stored.
RoleKept == \A u \in Users : users[u].role # "" => users'[u].role = users[u].role

\* The campaign service is asked about a user only while the row of the user
\* has no role.
FetchOnlyRoleless ==
  \A p \in Procs :
    (At(p, "ensure_user", "fetch") /\ stack'[p] # stack[p])
      => ~Memoized(users[Top(p).arg.user])

\* A request that finds no role stored goes on to ask the campaign service.
RolelessFetches ==
  \A p \in Procs :
    (At(p, "ensure_user", "read") /\ stack'[p] # stack[p]
       /\ ~Memoized(users[Top(p).arg.user]))
      => stack'[p][1].pc = "fetch"

\* A request whose fetch failed still stores the row and succeeds.
FailedFetchStores ==
  \A p \in Procs :
    (res[p].op = "ensure_user" /\ res[p].rv.tag = "role_failed")
      => res[p].rv.ok /\ users[res[p].arg.user].exists

\* C30: once the row of a user has a role, ensure_user_exists asks the
\* campaign service nothing about the user and no step changes the stored
\* role; while the role is absent each access asks again, and a failed fetch
\* still stores the row from the token and the request succeeds.
C30_RoleMemoized ==
  [][RoleKept /\ FetchOnlyRoleless /\ RolelessFetches]_vars /\ []FailedFetchStores

\* Of two requests of one user that ran one after the other, the second
\* does as C30 says: with the role stored by the first it asks nothing and
\* keeps the role, and without it it asks again.
MemoizedInSequence ==
  \A p, q \in Procs :
    (/\ res[p].op = "ensure_user" /\ res[q].op = "ensure_user"
     /\ Then(p, q)
     /\ res[p].arg.user = res[q].arg.user)
      => /\ res[p].rv.ok /\ res[q].rv.ok
         /\ IF res[p].rv.val # ""
            THEN /\ res[q].rv.tag = "memo" /\ res[q].rv.aux = 0
                 /\ res[q].rv.val = res[p].rv.val
            ELSE res[q].rv.aux = 1
         /\ users[res[q].arg.user].role = res[q].rv.val

\* C30: user 2 was fetched as a collaborator by one request and the next
\* request of user 2, run after it, asked nothing and kept the role.
C30_SecondAccessAsksNothing ==
  \E p, q \in Procs :
    /\ res[p].op = "ensure_user" /\ res[q].op = "ensure_user"
    /\ Then(p, q)
    /\ res[p].arg.user = 2 /\ res[q].arg.user = 2
    /\ res[p].rv.tag = "fetched" /\ res[p].rv.aux = 1
    /\ res[q].rv.tag = "memo" /\ res[q].rv.aux = 0
    /\ users[2].role = "influencer"

\* A request of user 2 whose fetch failed wrote over the role another
\* request had stored meanwhile.
RoleLostToFailedFetch ==
  \E p, q \in Procs :
    /\ res[p].op = "ensure_user" /\ res[q].op = "ensure_user"
    /\ res[p].arg.user = 2 /\ res[q].arg.user = 2
    /\ res[p].rv.ok /\ res[p].rv.val = "influencer"
    /\ res[q].rv.ok /\ res[q].rv.tag = "role_failed"
    /\ users[2].role = ""

\* A finished create-conversation request that was answered with a
\* conversation.
Created(p) == res[p].op = "post_conversation" /\ res[p].rv.ok

\* C31: the conversation a create-conversation request answers with has the
\* owner of the thread as participant 1, whatever other participant was
\* supplied.
C31_OwnerIsParticipant1 ==
  \A p \in Procs :
    Created(p)
      => ConvById(res[p].rv.val).participant1_id = ThreadOwner(res[p].arg.thread_id)

\* C31: the owner of thread 3 supplied a participant with a higher id and
\* holds slot 1 of the conversation.
C31_HigherOtherKeepsOwnerFirst ==
  \E p \in Procs :
    /\ Created(p)
    /\ res[p].arg.user = 3 /\ res[p].arg.other = 4
    /\ ConvById(res[p].rv.val).participant1_id = 3
    /\ ConvById(res[p].rv.val).participant2_id = 4

\* The owner of thread 3 supplied user 2 and was stored as participant 2.
OwnerStoredSecond ==
  \E p \in Procs :
    /\ Created(p)
    /\ res[p].arg.user = 3 /\ res[p].arg.other = 2
    /\ ConvById(res[p].rv.val).participant1_id = 2
    /\ ConvById(res[p].rv.val).participant2_id = 3

\* C34: no conversation holds the same user in both slots.
C34_SlotsDiffer ==
  \A i \in DOMAIN conversations :
    conversations[i].participant1_id # conversations[i].participant2_id

\* C34: participant 1 of a conversation asked to join it and was refused;
\* the slot is still open.
C34_SelfJoinLeavesSlotOpen ==
  \E p \in Procs :
    /\ res[p].op = "join" /\ res[p].rv.tag = "own_conversation"
    /\ ConvById(res[p].arg.conv).participant1_id = res[p].arg.user
    /\ ConvById(res[p].arg.conv).participant2_id = NONE

\* The owner of thread 3 supplied their own id and holds both slots.
OwnerInBothSlots ==
  \E p \in Procs :
    /\ Created(p)
    /\ res[p].arg.other = res[p].arg.user
    /\ ConvById(res[p].rv.val).participant1_id = res[p].arg.user
    /\ ConvById(res[p].rv.val).participant2_id = res[p].arg.user

\* A call of get_or_create_conversation without participant2 is never at
\* the lookup.
NoLookupWithoutSecond ==
  \A p \in Procs :
    (~Idle(p) /\ Top(p).op = "get_or_create" /\ Top(p).pc = "lookup")
      => ~Falsy(Top(p).arg.participant2_id)

\* The step of such a call appends one row with an id no row had, the
\* thread and participant 1 of the call and no participant 2, and returns
\* that id.
SingleInserts ==
  \A p \in Procs :
    (/\ At(p, "get_or_create", "insert")
     /\ Falsy(Top(p).arg.participant2_id)
     /\ stack'[p] # stack[p])
      => LET n == Len(conversations) + 1
         IN /\ Len(conversations') = n
            /\ \A i \in DOMAIN conversations : conversations'[i] = conversations[i]
            /\ conversations'[n].id \notin ConvIds
            /\ conversations'[n].thread_id = Top(p).arg.thread_id
            /\ conversations'[n].participant1_id = Top(p).arg.participant1_id
            /\ conversations'[n].participant2_id = NONE
            /\ conversations'[n].participant2_name = NONE
            /\ conversations'[n].participant2_avatar = NONE
            /\ Len(stack[p]) = 1 => res'[p].rv = Rv(TRUE, conversations'[n].id, "created")

\* C32: get_or_create_conversation without participant2 performs no lookup:
\* every such call inserts a new row with the participant-2 fields null and
\* returns its fresh id.
C32_SingleAlwaysInserts == []NoLookupWithoutSecond /\ [][SingleInserts]_vars

\* C32: two calls for the same thread and participant 1, one after the
\* other, left two rows with different ids and no participant 2.
C32_TwoCallsTwoRows ==
  \E p, q \in Procs :
    /\ res[p].op = "get_or_create" /\ res[q].op = "get_or_create"
    /\ Then(p, q)
    /\ res[p].arg = res[q].arg
    /\ res[p].arg.participant2_id = NONE
    /\ res[p].rv.ok /\ res[q].rv.ok
    /\ res[p].rv.val # res[q].rv.val
    /\ ConvById(res[p].rv.val).participant2_id = NONE
    /\ ConvById(res[q].rv.val).participant2_id = NONE
    /\ ConvById(res[p].rv.val).participant1_id = ConvById(res[q].rv.val).participant1_id

Participant(c, u) ==
  ConvById(c).participant1_id = u \/ ConvById(c).participant2_id = u

\* No finished listing of a conversation's messages by a user who holds no
\* slot of it was answered with the messages: it was refused, and with
\* Forbidden when the conversation is one of the thread named.
ListingScoped ==
  \A p \in Procs :
    (/\ res[p].op = "get_messages"
     /\ res[p].arg.conv \in ConvIds
     /\ ~Participant(res[p].arg.conv, res[p].arg.user))
      => /\ ~res[p].rv.ok
         /\ (res[p].arg.thread_id = ConvById(res[p].arg.conv).thread_id
               => res[p].rv.val = 403)

\* The same of a finished read of one message and the conversation the
\* message belongs to.
SingleReadScoped ==
  \A p \in Procs :
    (/\ res[p].op = "get_message"
     /\ res[p].arg.msg \in MsgIds
     /\ ~Participant(MsgById(res[p].arg.msg).conversation_id, res[p].arg.user))
      => ~res[p].rv.ok

\* C35: a read of messages, by listing a conversation or by getting one
\* message, by a user who is neither participant of the conversation is
\* refused and answers with no message.
C35_ReadsScopedToParticipants == ListingScoped /\ SingleReadScoped

\* C35: user 3, who holds no slot of conversation 2, asked for its messages
\* and was answered Forbidden.
C35_OutsiderListingForbidden ==
  \E p \in Procs :
    /\ res[p].op = "get_messages"
    /\ res[p].arg.user = 3 /\ res[p].arg.conv = 2 /\ res[p].arg.thread_id = 1
    /\ ~Participant(2, 3)
    /\ ~res[p].rv.ok /\ res[p].rv.val = 403

\* User 3, who holds no slot of conversation 2, was given message 5 of it.
OutsiderReadMessage ==
  \E p \in Procs :
    /\ res[p].op = "get_message"
    /\ res[p].arg.user = 3 /\ res[p].arg.msg = 5
    /\ ~Participant(MsgById(5).conversation_id, 3)
    /\ res[p].rv.ok /\ res[p].rv.val = 5

\* A message is stored only in a step of an append request, with the user
\* of that request as its sender.
StoredAsRequester ==
  \A p \in Procs :
    (~Idle(p) /\ Len(messages') > Len(messages) /\ stack'[p] # stack[p])
      => /\ stack[p][1].op = "post_message"
         /\ messages'[Len(messages')].sender_id = stack[p][1].arg.user

\* A finished delete succeeded only for the user whose append stored the
\* message: no finished append of another user answered with that message.
DeletedByAuthor ==
  \A p, q \in Procs :
    (/\ res[p].op = "delete_message" /\ res[p].rv.ok
     /\ res[q].op = "post_message" /\ res[q].rv.ok
     /\ res[q].rv.val = res[p].arg.msg)
      => res[q].arg.user = res[p].arg.user

\* C36: every stored message has as sender the authenticated user of the
\* append request that stored it, so a delete succeeds only for the user who
\* wrote the message.
C36_SenderIsRequester == [][StoredAsRequester]_vars /\ []DeletedByAuthor

\* C36: user 1 appended a message in their own name, was stored as its
\* sender and then deleted it.
C36_AuthorStoredAndDeleted ==
  \E p, q \in Procs :
    /\ res[q].op = "post_message" /\ res[q].rv.ok
    /\ res[q].arg.user = 1 /\ res[q].arg.sender = 1
    /\ MsgById(res[q].rv.val).sender_id = 1
    /\ res[p].op = "delete_message" /\ res[p].rv.ok
    /\ res[p].arg.user = 1 /\ res[p].arg.msg = res[q].rv.val
    /\ MsgById(res[q].rv.val).deleted

\* User 1 appended a message naming user 3 as its sender, and user 3 is
\* stored as the sender.
StoredForAnother ==
  \E p \in Procs :
    /\ res[p].op = "post_message" /\ res[p].rv.ok
    /\ res[p].arg.user = 1 /\ res[p].arg.sender = 3
    /\ MsgById(res[p].rv.val).sender_id = 3

\* No step of a profile update changes the role of the user.
ProfileUpdateKeepsRole ==
  \A p \in Procs :
    (At(p, "put_user", "write") /\ stack'[p] # stack[p])
      => users'[Top(p).arg.user].role = users[Top(p).arg.user].role

\* A join of a campaign succeeded only for a user the campaign service
\* reports as admin.
AdminJoinsOnly ==
  \A p \in Procs :
    (res[p].op = "join_campaign" /\ res[p].rv.ok) => UserRole(res[p].arg.user) = "admin"

\* C37: no request of the user, the profile update included, sets, changes
\* or clears the stored role, so the join of a campaign succeeds only for
\* users the campaign service reported as admin.
C37_RoleOnlyFromService == [][ProfileUpdateKeepsRole]_vars /\ []AdminJoinsOnly

\* C37: user 3, whom the service reports as admin, joined campaign 1, and
\* user 2, a collaborator, was refused.
C37_AdminJoinedOtherRefused ==
  \E p, q \in Procs :
    /\ res[p].op = "join_campaign" /\ res[q].op = "join_campaign"
    /\ res[p].arg.user = 3 /\ res[p].rv.ok
    /\ users[3].role = "admin"
    /\ res[q].arg.user = 2 /\ res[q].rv.tag = "not_admin"
    /\ users[2].role = "influencer"

\* User 2, a collaborator, stored the role admin through a profile update
\* and joined campaign 1.
SelfMadeAdmin ==
  \E p, q \in Procs :
    /\ res[p].op = "put_user" /\ res[p].arg.user = 2 /\ res[p].arg.role = "admin"
    /\ res[p].rv.ok
    /\ res[q].op = "join_campaign" /\ res[q].arg.user = 2 /\ res[q].rv.ok
    /\ users[2].role = "admin"
====
